---- MODULE Spec2Model ----
(***************************************************************************)
(* Verification model of the ChainBot workflow orchestrator                *)
(* (backend/app/services/workflow_orchestrator.py).                        *)
(*                                                                         *)
(* One execution of one workflow is modelled.  The orchestrator runs on a  *)
(* cooperative (asyncio) event loop: a coroutine keeps the processor until *)
(* it reaches an await.  Every value of pc / of a step phase that ends in  *)
(* "_bcast", and "handler", "gather", "spawned", is a suspension point;    *)
(* the other values are positions inside one uninterrupted run of the      *)
(* driver, during which no other coroutine may act (see Busy).             *)
(*                                                                         *)
(* The websocket manager and the audit service are injected collaborators; *)
(* their calls are awaits that return normally, and the broadcasts are     *)
(* recorded in counters.                                                   *)
(***************************************************************************)
EXTENDS Integers, Sequences, FiniteSets, TLC

\* ------------------------------------------------------------------ bounds
MaxSteps == 2        \* top-level steps of a flat workflow
MaxItems == 2        \* items of a loop step
MaxNested == 2       \* nested steps of a loop / parallel step
MaxCalls == 2        \* cancel / pause / resume calls made by clients
MaxNodes == 3        \* nodes of a visual workflow
MaxNewNodes == 2     \* nodes passed to create_visual_workflow
MaxNewEdges == 3     \* edges passed to create_visual_workflow
MaxOverCap == 1      \* steps of a parallel workflow beyond max_parallel_steps
MaxPieces == 5       \* pieces of a string template passed to _interpolate_variables
MaxValue == 12       \* the integer among the values of the variables
MaxConns == 3        \* websockets accepted by the WebSocketManager
MaxTime == 3         \* readings of the clock after the first
IdleTimeout == 1     \* the timeout_minutes passed to cleanup_inactive_connections
SweepInterval == 1   \* the time from one sweep of the idle connections to the next
MaxBrainCalls == 3   \* generate_completion calls made on the AgentBrain
MaxFailures == 1     \* provider calls that fail
MaxClears == 1       \* clear_conversation_history calls
MaxMetaDepth == 4    \* nesting depth of the meta passed to log_event
MaxSends == 6        \* send_message_to_agent calls made on the AIAgentManager
MaxMembers == 2      \* the agents an entanglement can hold have the ids 0..MaxMembers
MaxEntCalls == 2     \* broadcast_message / coordinate_agents calls made
MaxEntOps == 3       \* add_agent_to_entanglement / remove_agent_from_entanglement calls made
MaxDisconnects == 2  \* disconnect calls that may overlap
MaxInFlight == 2     \* generate_completion calls that await their provider at a time
MaxExtra == 1        \* messages of the history supplied by the caller

\* ------------------------------------------------------- program constants
DefaultMaxRetries == 3      \* StepContext.max_retries
MaxHistoryLength == 20      \* max_history_length of the AgentBrain
MaxParallelSteps == 5       \* ExecutionContext.max_parallel_steps

VARIABLES
    wf,               \* workflow.definition: [type, steps]
    registered,       \* execution_id in self.active_executions
    taskRegistered,   \* execution_id in self.execution_tasks
    status,           \* context.status
    current_step,     \* context.current_step (0 = None)
    completed_steps,  \* context.completed_steps
    failed_steps,     \* context.failed_steps
    step_contexts,    \* context.step_contexts: id -> [status, retry_count, max_retries]
    pc,               \* position of the driver task (_execute_workflow_async)
    idx,              \* loop index of the driver (for step in steps / zip(group, results))
    inRetry,          \* the running _execute_step was called by _handle_step_failure
    run,              \* per top-level step: position of its _execute_step coroutine
    sem,              \* value of the semaphore of _execute_parallel_steps
    cancelReq,        \* Task.cancel() was called and CancelledError is not yet delivered
    handlerCalls,     \* per step id: number of handler invocations
    startBcasts,      \* number of "workflow_step_updated" broadcasts with status running
    calls,            \* number of cancel/pause/resume calls made
    cancelCalls,      \* number of cancel_execution calls that took the registered branch
    lastCtl,          \* the last cancel/pause/resume call that wrote context.status
    snap,             \* the step statuses when the first of a run of cancel calls was made
    lastCall,         \* the last cancel/pause/resume call made: [op, ret] (ret: its return value)
    ctlBcasts,        \* number of execution-status broadcasts made by cancel/pause/resume
    auditEvents,      \* number of audit events logged by cancel/pause/resume
    \* --- the data of the execution
    results,          \* context.results: step id -> value (0: no entry)
    stepResults,      \* step_context.results per step id (0: None)
    variables,        \* context.variables: name -> value (0: no entry)
    outvar,           \* per step: its output_variable (0: the step defines none)
    \* --- one call of _interpolate_variables, and a second call on its result
    tmpl,             \* the template argument
    ivars,            \* the variables argument: the (key, value) pairs in items() order
    once,             \* _interpolate_variables(tmpl, ivars)
    twice,            \* _interpolate_variables(once, ivars)
    ipc,              \* position: "none", "ready", "once", "twice"
    \* --- the WebSocketManager
    active_connections,   \* connection_id -> WindowConnection (NoConn: no entry)
    window_connections,   \* window type -> list of connection ids
    now,                  \* the reading of the clock (datetime.utcnow())
    sockets,              \* number of websockets accepted so far; they are 1..sockets
    closed,               \* the websockets on which close() was called
    delivered,            \* per websocket: number of broadcast messages sent on it
    bpc,                  \* position of the broadcast call
    bkind,                \* "window" (broadcast_to_window) or "all" (broadcast_to_all)
    bwt,                  \* the window type of a broadcast_to_window
    biter,                \* the list copy that broadcast_to_all iterates
    bidx,                 \* the list iterator: number of entries it has returned
    bcur,                 \* the connection id of the send_text awaited
    bstart,               \* the connection ids registered for the broadcast at its start
    bfailed,              \* the connection ids whose send_text raised in the broadcast
    spc,                  \* position of cleanup_inactive_connections
    inactive,             \* inactive_connections not yet disconnected by the sweep
    swept,                \* the connections the sweep disconnected, with their last_activity
    \* --- the AgentBrain
    conversation_store,   \* agent_id -> list of messages (<<>>: no entry)
    brainCalls,           \* number of generate_completion calls made so far
    turns,                \* per agent_id: number of prompts sent for it so far
    inflight,             \* per call slot: the generate_completion call that awaits its provider
    brainFailures,        \* number of provider calls that failed
    brainClears,          \* number of clear_conversation_history calls
    \* --- one generate_completion call seen from its providers
    openai_client,        \* AgentBrain.openai_client is set
    maclink_client,       \* AgentBrain.maclink_client is set
    request,              \* the BrainRequest: provider, persona, model
    gpc,                  \* position of the call: "none", "ready", "awaiting", "returned", "raised"
    chosen,               \* the (provider, model) _select_provider_and_model returned
    requests,             \* per provider: number of requests issued to its client
    raisedBy,             \* BrainError.provider of the error the call raised
    \* --- one log_event call of the AuditService
    ameta,                \* the meta argument
    astored,              \* AuditLog.meta of the record added to the database
    aagain,               \* _sanitize_data of the stored meta
    apc,                  \* position: "none", "ready", "logged", "again"
    \* --- the AIAgentManager
    agentStatus,          \* active_agents[agent_id]["status"]
    sendPc,               \* per agent: position of its send_message_to_agent call
    wsManagerSet,         \* get_websocket_manager() returns a WebSocketManager
    sends,                \* number of send_message_to_agent calls made
    \* --- the EntanglementManager, one entanglement
    members,              \* entanglements[eid]["agents"]
    message_queue,        \* message_queues[eid]: the messages as <<sender, receiver>>
    epc,                  \* position of the broadcast_message / coordinate_agents call
    ecaller,              \* the call: "none", "broadcast", "coordinate"
    esender,              \* sender_id of the broadcast
    etodo,                \* the members the iteration of broadcast_message has still to visit
    eagents,              \* agents of coordinate_agents: the list made from the set
    eidx,                 \* position of coordinate_agents in eagents
    invoked,              \* per agent: execute_agent_task calls of the coordinate_agents call
    eresults,             \* the keys of results of the coordinate_agents call
    esent,                \* number of messages the call appended
    entCalls,             \* number of broadcast_message / coordinate_agents calls made
    entOps,               \* number of add / remove calls made
    \* --- disconnect calls of the WebSocketManager seen step by step
    dcall,            \* per call: the connection_id it was given and its position
    \* --- the execute_workflow call after it has spawned the driver
    callPc,           \* "audit", "start_bcast": the await it is at; "returned"; "raised"
    deadlinePassed,   \* start_time + context.timeout went by while the execution was running
    \* --- one call of create_visual_workflow
    cnodes,           \* number of nodes passed; their ids are 1..cnodes, in list order
    cedges,           \* the list of edges passed: pairs <<source, target>>
    ctypesOk,         \* every node passed has a valid type
    cpc,              \* position of the call
    persisted,        \* number of workflow records added to the database
    \* --- one execution of a visual workflow (execute_visual_workflow)
    vnodes,           \* number of nodes of the workflow definition; their ids are 1..vnodes
    vedges,           \* edges of the workflow definition: pairs <<source, target>>
    vstatus,          \* context.status of the visual execution
    vpc,              \* position of the driver task (_execute_visual_workflow_async)
    graph,            \* execution_graph: node id -> [dependencies, dependents, status, executed]
    ready,            \* ready_nodes of _execute_visual_nodes
    vphase,           \* per node: position of its _execute_visual_node task
    vresults,         \* context.results: the node ids that have a result, with its success flag
    vruns             \* per node: number of _execute_visual_node tasks started for it

flatVars == <<wf, registered, taskRegistered, status, current_step, completed_steps,
              failed_steps, step_contexts, pc, idx, inRetry, run, sem, cancelReq,
              handlerCalls, startBcasts>>
ctlVars == <<calls, cancelCalls, lastCtl, snap, lastCall, ctlBcasts, auditEvents>>
visVars == <<vnodes, vedges, vstatus, vpc, graph, ready, vphase, vresults, vruns>>
clockVars == <<deadlinePassed>>
createVars == <<cnodes, cedges, ctypesOk, cpc, persisted>>
dataVars == <<results, stepResults, variables, outvar>>
interpVars == <<tmpl, ivars, once, twice, ipc>>
\* the state of the functions and services next to the orchestrator's executions
regVars == <<active_connections, window_connections, now, sockets, closed>>
bcastVars == <<delivered, bpc, bkind, bwt, biter, bidx, bcur, bstart, bfailed>>
sweepVars == <<spc, inactive, swept>>
wsVars == <<regVars, bcastVars, sweepVars>>
brainVars == <<conversation_store, brainCalls, turns, inflight, brainFailures, brainClears>>
selVars == <<openai_client, maclink_client, request, gpc, chosen, requests, raisedBy>>
\* the services around the agents
auditVars == <<ameta, astored, aagain, apc>>
agentVars == <<agentStatus, sendPc, wsManagerSet, sends>>
entVars == <<members, message_queue, epc, ecaller, esender, etodo, eagents, eidx,
             invoked, eresults, esent, entCalls, entOps>>
discVars == <<dcall>>
startVars == <<callPc>>
svcVars == <<selVars, auditVars, agentVars, entVars, discVars, startVars>>
libVars == <<interpVars, wsVars, brainVars, svcVars>>
vars == <<flatVars, ctlVars, visVars, clockVars, createVars, dataVars, libVars>>
\* what the actions of a flat execution / of a visual execution leave alone; the
\* steps of _execute_step that end a handler write dataVars
notStep == <<visVars, clockVars, createVars, libVars>>
notFlat == <<notStep, dataVars>>
notVis == <<flatVars, ctlVars, clockVars, createVars, dataVars, libVars>>
notCreate == <<flatVars, ctlVars, visVars, clockVars, dataVars, libVars>>

\* --------------------------------------------------------------- workflows
\* on_failure policies of a step definition (step.get('on_failure', {}))
OnFailure == {[action |-> "fail", max_retries |-> 0],
              [action |-> "continue", max_retries |-> 0],
              [action |-> "retry", max_retries |-> 1],
              [action |-> "retry", max_retries |-> DefaultMaxRetries + 1]}
NoPolicy == [action |-> "fail", max_retries |-> 0]

\* A nested step definition of a loop / parallel step.  id 0 stands for an id
\* that is no key of context.step_contexts; a workflow with a loop / parallel step
\* has that step alone, or with one plain step before or after it (ids 1 and 2).
NestedDefs == [id: {0, 1, 2}, fails: BOOLEAN]
NestedSeqs == UNION {[1..k -> NestedDefs] : k \in 1..MaxNested}

\* Leaf steps: a handler doing I/O that returns or raises.  skip is the outcome
\* of evaluating the step's condition (TRUE: the condition is false).
LeafSteps ==
    {[kind |-> "task", fails |-> FALSE, skip |-> TRUE, onf |-> NoPolicy, items |-> 0, nested |-> <<>>],
     [kind |-> "task", fails |-> FALSE, skip |-> FALSE, onf |-> NoPolicy, items |-> 0, nested |-> <<>>]}
    \cup {[kind |-> "task", fails |-> TRUE, skip |-> FALSE, onf |-> o, items |-> 0, nested |-> <<>>] :
            o \in OnFailure}
CompoundSteps ==
    {[kind |-> "loop", fails |-> FALSE, skip |-> FALSE, onf |-> NoPolicy, items |-> k, nested |-> ns] :
        k \in 0..MaxItems, ns \in NestedSeqs}
    \cup {[kind |-> "parallel", fails |-> FALSE, skip |-> FALSE, onf |-> NoPolicy, items |-> 0, nested |-> ns] :
        ns \in NestedSeqs}
PlainStep == [kind |-> "task", fails |-> FALSE, skip |-> FALSE, onf |-> NoPolicy, items |-> 0, nested |-> <<>>]

WorkflowTypes == {"sequential", "parallel", "conditional"}
LeafStepSeqs == UNION {[1..n -> LeafSteps] : n \in 0..MaxSteps}
CompoundAt(n, p) ==
    {[i \in 1..n |-> IF i = p THEN c ELSE PlainStep] :
        c \in {d \in CompoundSteps : \A j \in DOMAIN d.nested : d.nested[j].id <= n}}
CompoundStepSeqs == CompoundAt(1, 1) \cup CompoundAt(2, 1) \cup CompoundAt(2, 2)
LeafWorkflows == [type: WorkflowTypes, steps: LeafStepSeqs]
Workflows == [type: WorkflowTypes, steps: LeafStepSeqs \cup CompoundStepSeqs]

Steps == wf.steps
NumSteps == Len(wf.steps)
StepIds == 1..NumSteps

\* the value returned by the handler of step i: one value per step
Ret(i) == i
\* the names of the variables of an execution: the output_variable names of
\* the steps, and the two names that _handle_loop binds in its loop_context
VarNames == {1}
LoopItem == 2
LoopIndex == 3
ScopeNames == VarNames \cup {LoopItem, LoopIndex}
\* the items of a loop step with k items, and the item of the it-th iteration
Item(it) == it
\* loop_context before the first item: the local is not assigned yet
NoLoopContext == [x \in ScopeNames |-> 0]
\* loop_context = context.variables.copy() with loop_item and loop_index =
\* len(results) written into the copy; index n is stored as n + 1 (0: no entry)
LoopContext(vs, item, nresults) ==
    [vs EXCEPT ![LoopItem] = item, ![LoopIndex] = nresults + 1]

\* StepContext(...) as created by execute_workflow: the dataclass defaults
NewStepContext == [status |-> "pending", retry_count |-> 0, max_retries |-> DefaultMaxRetries]

\* the coroutine state of one _execute_step call on a top-level step:
\*   phase: where the call is; ok: it is about to return (TRUE) or raise (FALSE);
\*   it, nj: item and nested-step index of a loop handler;
\*   lc: the local loop_context of a loop handler;
\*   nph: the phases of the _execute_step calls on the nested steps
IdleRun(i) == [phase |-> "idle", ok |-> TRUE, it |-> 0, nj |-> 0, lc |-> NoLoopContext,
               nph |-> [j \in DOMAIN Steps[i].nested |-> "idle"]]

TerminalStatus == {"completed", "failed", "cancelled"}

\* positions inside one uninterrupted run of the driver: nothing else is scheduled
Busy == pc \in {"seq_head", "cond_head", "step_ret", "par_check"}
\* awaits of the driver inside the try block of _execute_workflow_async
TrySuspensions == {"run_bcast", "empty_bcast", "skip_bcast", "in_step", "err_bcast",
                   "gather", "final_bcast"}
\* awaits of the driver inside its except blocks
HandlerSuspensions == {"cancel_bcast", "fail_bcast"}

\* the state before execute_workflow is called on the workflow wf, for a context
\* whose max_parallel_steps is cap
InitExecutionWith(cap) ==
    /\ registered = FALSE
    /\ taskRegistered = FALSE
    /\ status = "pending"
    /\ current_step = 0
    /\ completed_steps = <<>>
    /\ failed_steps = <<>>
    /\ step_contexts = [i \in StepIds |-> NewStepContext]
    /\ pc = "none"
    /\ idx = 0
    /\ inRetry = FALSE
    /\ run = [i \in StepIds |-> IdleRun(i)]
    /\ sem = cap
    /\ cancelReq = FALSE
    /\ handlerCalls = [i \in StepIds |-> 0]
    /\ startBcasts = 0
InitExecution == InitExecutionWith(MaxParallelSteps)
InitFlat ==
    /\ wf \in Workflows
    /\ InitExecution
InitCtl ==
    /\ calls = 0
    /\ cancelCalls = 0
    /\ lastCtl = "none"
    /\ snap = <<>>
    /\ lastCall = [op |-> "none", ret |-> FALSE]
    /\ ctlBcasts = 0
    /\ auditEvents = 0

InitClock == deadlinePassed = FALSE
\* no result and no variable yet (input_data is empty); the steps define no
\* output_variable, or any
InitDataWith(outvars) ==
    /\ outvar \in outvars
    /\ results = [i \in StepIds |-> 0]
    /\ stepResults = [i \in StepIds |-> 0]
    /\ variables = [x \in ScopeNames |-> 0]
InitData == InitDataWith({[i \in StepIds |-> 0]})
\* no call of _interpolate_variables
InitInterpIdle ==
    /\ tmpl = <<>> /\ ivars = <<>> /\ once = <<>> /\ twice = <<>> /\ ipc = "none"
\* WebSocketManager(): empty registries; no broadcast and no sweep is running
WsWindowTypes == {"chat", "watchtower"}
ConnIds == WsWindowTypes \X (0..MaxTime)
NoConn == [ws |-> 0, last_activity |-> 0]
InitWs ==
    /\ active_connections = [c \in ConnIds |-> NoConn]
    /\ window_connections = [w \in WsWindowTypes |-> <<>>]
    /\ now = 0 /\ sockets = 0 /\ closed = {}
    /\ delivered = [k \in 1..MaxConns |-> 0]
    /\ bpc = "idle" /\ bkind = "none" /\ bwt = "none" /\ biter = <<>> /\ bidx = 0
    /\ bcur = <<>> /\ bstart = {} /\ bfailed = {}
    /\ spc = "idle" /\ inactive = {} /\ swept = {}
\* AgentBrain(): an empty conversation_store, no call
AgentIds == {"a1", "a2"}
CallSlots == 1..MaxInFlight
NoCall == [agent |-> "none", prompt |-> 0, additional |-> <<>>, history |-> <<>>]
InitBrain ==
    /\ conversation_store = [a \in AgentIds |-> <<>>]
    /\ brainCalls = 0 /\ turns = [a \in AgentIds |-> 0]
    /\ inflight = [k \in CallSlots |-> NoCall]
    /\ brainFailures = 0 /\ brainClears = 0
\* no generate_completion call under way
Providers == {"openai", "maclink"}
NoPersona == [preferred_provider |-> "none", preferred_model |-> "none"]
NoRequest == [provider |-> "none", persona |-> NoPersona, model |-> "none"]
NoChoice == [provider |-> "none", model |-> "none"]
InitSelIdle ==
    /\ openai_client = FALSE /\ maclink_client = FALSE
    /\ request = NoRequest /\ gpc = "none" /\ chosen = NoChoice
    /\ requests = [p \in Providers |-> 0] /\ raisedBy = "none"
\* no log_event call
InitAuditIdle == ameta = <<>> /\ astored = <<>> /\ aagain = <<>> /\ apc = "none"
\* AIAgentManager with its agents created (create_agent: status idle), no call
InitAgents ==
    /\ agentStatus = [a \in AgentIds |-> "idle"]
    /\ sendPc = [a \in AgentIds |-> "none"]
    /\ sends = 0
InitAgentsIdle == InitAgents /\ wsManagerSet = FALSE
\* create_entanglement: no member, no message, no call
EntAgentIds == 0..MaxMembers
SystemSender == 0
InitEnt ==
    /\ members = {} /\ message_queue = <<>>
    /\ epc = "none" /\ ecaller = "none" /\ esender = SystemSender
    /\ etodo = <<>> /\ eagents = <<>> /\ eidx = 0
    /\ invoked = [a \in EntAgentIds |-> 0] /\ eresults = {} /\ esent = 0
    /\ entCalls = 0 /\ entOps = 0
\* no disconnect call was made
DisconnectCalls == 1..MaxDisconnects
NoDisconnect == [conn |-> <<"none", 0>>, pc |-> "none"]
InitDisc == dcall = [k \in DisconnectCalls |-> NoDisconnect]
\* execute_workflow awaits the audit service first
InitStart == callPc = "audit"
InitSvcIdle == InitSelIdle /\ InitAuditIdle /\ InitAgentsIdle /\ InitEnt /\ InitDisc /\ InitStart
InitLibIdle == InitInterpIdle /\ InitWs /\ InitBrain /\ InitSvcIdle
InitCreateIdle ==
    /\ cnodes = 0
    /\ cedges = <<>>
    /\ ctypesOk = TRUE
    /\ cpc = "none"
    /\ persisted = 0

\* ---------------------------------------------------------------- the driver
\* execute_workflow: builds the context, registers it and spawns the driver task
ExecuteWorkflow ==
    /\ pc = "none"
    /\ registered' = TRUE
    /\ taskRegistered' = TRUE
    /\ status' = "pending"
    /\ step_contexts' = [i \in StepIds |-> NewStepContext]
    /\ pc' = "spawned"
    /\ UNCHANGED <<wf, current_step, completed_steps, failed_steps, idx, inRetry, run, sem,
                   cancelReq, handlerCalls, startBcasts, ctlVars, notFlat>>

\* finally: of _execute_workflow_async
Cleanup ==
    /\ registered' = FALSE
    /\ taskRegistered' = FALSE
    /\ pc' = "done"

\* the task's first step: context.status = RUNNING; await _update_execution_status
DriverStart ==
    /\ pc = "spawned" /\ ~cancelReq
    /\ status' = "running"
    /\ pc' = "run_bcast"
    /\ UNCHANGED <<wf, registered, taskRegistered, current_step, completed_steps, failed_steps,
                   step_contexts, idx, inRetry, run, sem, cancelReq, handlerCalls, startBcasts,
                   ctlVars, notFlat>>

\* a task cancelled before its first step never runs its coroutine: no try, no finally
DriverCancelledUnstarted ==
    /\ pc = "spawned" /\ cancelReq
    /\ pc' = "done"
    /\ cancelReq' = FALSE
    /\ UNCHANGED <<wf, registered, taskRegistered, status, current_step, completed_steps,
                   failed_steps, step_contexts, idx, inRetry, run, sem, handlerCalls,
                   startBcasts, ctlVars, notFlat>>

\* every coroutine of the execution that was suspended is unwound by CancelledError;
\* except Exception does not catch it, so no step status is written
Unwound(r) == [r EXCEPT !.phase = IF @ \in {"idle", "returned", "raised"} THEN @ ELSE "cancelled",
                        !.nph = [j \in DOMAIN @ |->
                                   IF @[j] \in {"idle", "returned", "raised"} THEN @[j]
                                   ELSE "cancelled"]]

\* CancelledError delivered at an await of the try block: except asyncio.CancelledError
DriverCancelled ==
    /\ cancelReq /\ pc \in TrySuspensions
    /\ cancelReq' = FALSE
    /\ status' = "cancelled"
    /\ run' = [i \in StepIds |-> Unwound(run[i])]
    /\ pc' = "cancel_bcast"
    /\ UNCHANGED <<wf, registered, taskRegistered, current_step, completed_steps, failed_steps,
                   step_contexts, idx, inRetry, sem, handlerCalls, startBcasts, ctlVars, notFlat>>

\* (mutant) the CancelledError raised inside an except block is handled as a failure
DriverCancelledInHandlerFails ==
    /\ cancelReq /\ pc \in HandlerSuspensions
    /\ cancelReq' = FALSE
    /\ status' = "failed"
    /\ Cleanup
    /\ UNCHANGED <<wf, current_step, completed_steps, failed_steps, step_contexts,
                   idx, inRetry, run, sem, handlerCalls, startBcasts, ctlVars, notFlat>>

\* CancelledError delivered at the await inside an except block: only finally runs
DriverCancelledInHandler ==
    /\ cancelReq /\ pc \in HandlerSuspensions
    /\ cancelReq' = FALSE
    /\ Cleanup
    /\ UNCHANGED <<wf, status, current_step, completed_steps, failed_steps, step_contexts,
                   idx, inRetry, run, sem, handlerCalls, startBcasts, ctlVars, notFlat>>

\* ------------------------------------------------------------ _execute_step
\* the coroutine of step i may run: it is a child task of the gather of
\* _execute_parallel_steps, or the call the driver is suspended in
StepActive(i) ==
    /\ ~Busy /\ ~cancelReq
    /\ IF wf.type = "parallel" THEN pc = "gather" ELSE pc = "in_step" /\ idx = i

\* step_context.status = RUNNING; await _update_step_status  (lines 302-304)
EnterStep(i, sc) ==
    /\ step_contexts' = [sc EXCEPT ![i].status = "running"]
    /\ run' = [run EXCEPT ![i] = [IdleRun(i) EXCEPT !.phase = "start_bcast"]]
    /\ startBcasts' = startBcasts + 1

\* the handler returned: status COMPLETED, await _update_step_status (lines 315-323)
StepCompleted(i, r) ==
    /\ step_contexts' = [step_contexts EXCEPT ![i].status = "completed"]
    /\ stepResults' = [stepResults EXCEPT ![i] = Ret(i)]
    /\ variables' = IF outvar[i] # 0 THEN [variables EXCEPT ![outvar[i]] = Ret(i)]
                     ELSE variables
    /\ run' = [run EXCEPT ![i] = [r EXCEPT !.phase = "end_bcast", !.ok = TRUE]]
    /\ UNCHANGED <<startBcasts, results, outvar>>

\* the handler raised: status FAILED, await _update_step_status (lines 326-330)
StepFailed(i, r) ==
    /\ step_contexts' = [step_contexts EXCEPT ![i].status = "failed"]
    /\ run' = [run EXCEPT ![i] = [r EXCEPT !.phase = "end_bcast", !.ok = FALSE]]
    /\ UNCHANGED <<startBcasts, dataVars>>

\* _handle_loop at item it, nested step nj: the loops' next _execute_step call,
\* or the handler's return; a nested id without StepContext raises KeyError
LoopEnter(i, r, it, nj) ==
    IF it > Steps[i].items
    THEN StepCompleted(i, r)
    ELSE LET d == Steps[i].nested[nj]
             \* a new item: loop_context is rebuilt; len(results) counts the nested
             \* results of the items before
             rl == [r EXCEPT !.lc = IF nj = 1
                                    THEN LoopContext(variables, Item(it),
                                                     (it - 1) * Len(Steps[i].nested))
                                    ELSE @]
         IN
         IF d.id = 0
         THEN StepFailed(i, [rl EXCEPT !.nph[nj] = "raised"])
         ELSE /\ step_contexts' = [step_contexts EXCEPT ![d.id].status = "running"]
              /\ run' = [run EXCEPT ![i] =
                            [rl EXCEPT !.it = it, !.nj = nj, !.nph[nj] = "start_bcast"]]
              /\ startBcasts' = startBcasts + 1
              /\ UNCHANGED dataVars

\* resumed after the "running" broadcast: the handler is looked up and called
StepStartBcastDone(i) ==
    /\ StepActive(i) /\ run[i].phase = "start_bcast"
    /\ handlerCalls' = [handlerCalls EXCEPT ![i] = @ + 1]
    /\ CASE Steps[i].kind = "task" ->
               /\ run' = [run EXCEPT ![i].phase = "handler"]
               /\ UNCHANGED <<step_contexts, startBcasts, dataVars>>
         [] Steps[i].kind = "loop" ->
               LoopEnter(i, [run[i] EXCEPT !.phase = "handler"], 1, 1)
         [] Steps[i].kind = "parallel" ->
               /\ run' = [run EXCEPT ![i].phase = "handler",
                                     ![i].nph = [j \in DOMAIN @ |-> "created"]]
               /\ UNCHANGED <<step_contexts, startBcasts, dataVars>>
    /\ UNCHANGED <<wf, registered, taskRegistered, status, current_step, completed_steps,
                   failed_steps, pc, idx, inRetry, sem, cancelReq, ctlVars, notStep>>

\* the I/O of a leaf handler ends: it returns, or raises
TaskHandlerDone(i) ==
    /\ StepActive(i) /\ run[i].phase = "handler" /\ Steps[i].kind = "task"
    /\ IF Steps[i].fails THEN StepFailed(i, run[i]) ELSE StepCompleted(i, run[i])
    /\ UNCHANGED <<wf, registered, taskRegistered, status, current_step, completed_steps,
                   failed_steps, pc, idx, inRetry, sem, cancelReq, handlerCalls, ctlVars, notStep>>

\* a nested task of _handle_parallel's gather starts; tasks start in creation order
NestedChildStart(i, j) ==
    /\ StepActive(i) /\ run[i].phase = "handler" /\ Steps[i].kind = "parallel"
    /\ run[i].nph[j] = "created"
    /\ \A k \in 1..(j - 1) : run[i].nph[k] # "created"
    /\ LET d == Steps[i].nested[j] IN
       IF d.id = 0
       THEN /\ run' = [run EXCEPT ![i].nph[j] = "raised"]
            /\ UNCHANGED <<step_contexts, startBcasts>>
       ELSE /\ step_contexts' = [step_contexts EXCEPT ![d.id].status = "running"]
            /\ run' = [run EXCEPT ![i].nph[j] = "start_bcast"]
            /\ startBcasts' = startBcasts + 1
    /\ UNCHANGED <<wf, registered, taskRegistered, status, current_step, completed_steps,
                   failed_steps, pc, idx, inRetry, sem, cancelReq, handlerCalls, ctlVars, notFlat>>

\* the variables that the handler of a nested step reads: _handle_loop and
\* _handle_parallel pass context to _execute_step, which passes it to the handler
HandlerScope(i, j) == variables

\* nested _execute_step resumed after its "running" broadcast: its handler is called
NestedStartBcastDone(i, j) ==
    /\ StepActive(i) /\ run[i].phase = "handler" /\ run[i].nph[j] = "start_bcast"
    /\ run' = [run EXCEPT ![i].nph[j] = "handler"]
    /\ UNCHANGED <<wf, registered, taskRegistered, status, current_step, completed_steps,
                   failed_steps, step_contexts, pc, idx, inRetry, sem, cancelReq, handlerCalls,
                   startBcasts, ctlVars, notFlat>>

\* the nested step's handler returns or raises; the status goes to the StepContext
\* found under the nested step's id
NestedHandlerDone(i, j) ==
    /\ StepActive(i) /\ run[i].phase = "handler" /\ run[i].nph[j] = "handler"
    /\ LET d == Steps[i].nested[j] IN
       /\ step_contexts' = [step_contexts EXCEPT
                               ![d.id].status = IF d.fails THEN "failed" ELSE "completed"]
       /\ run' = [run EXCEPT ![i].nph[j] = IF d.fails THEN "end_exc" ELSE "end_ok"]
       /\ stepResults' = IF d.fails THEN stepResults
                         ELSE [stepResults EXCEPT ![d.id] = Ret(d.id)]
    /\ UNCHANGED <<wf, registered, taskRegistered, status, current_step, completed_steps,
                   failed_steps, pc, idx, inRetry, sem, cancelReq, handlerCalls, startBcasts,
                   results, variables, outvar, ctlVars, notStep>>

\* the nested _execute_step returns or raises: a loop goes on or fails with the
\* exception, a gather records the outcome
NestedEndBcastDone(i, j) ==
    /\ StepActive(i) /\ run[i].phase = "handler" /\ run[i].nph[j] \in {"end_ok", "end_exc"}
    /\ LET after == IF run[i].nph[j] = "end_ok" THEN "returned" ELSE "raised"
           r == [run[i] EXCEPT !.nph[j] = after]
       IN  IF Steps[i].kind = "loop"
           THEN IF after = "raised"
                THEN StepFailed(i, r)
                ELSE IF j < Len(Steps[i].nested)
                     THEN LoopEnter(i, r, run[i].it, j + 1)
                     ELSE LoopEnter(i, r, run[i].it + 1, 1)
           ELSE /\ run' = [run EXCEPT ![i] = r]
                /\ UNCHANGED <<step_contexts, startBcasts, dataVars>>
    /\ UNCHANGED <<wf, registered, taskRegistered, status, current_step, completed_steps,
                   failed_steps, pc, idx, inRetry, sem, cancelReq, handlerCalls, ctlVars, notStep>>

\* asyncio.gather(..., return_exceptions=True) of _handle_parallel is complete
ParallelHandlerDone(i) ==
    /\ StepActive(i) /\ run[i].phase = "handler" /\ Steps[i].kind = "parallel"
    /\ \A j \in DOMAIN run[i].nph : run[i].nph[j] \in {"returned", "raised"}
    /\ StepCompleted(i, run[i])
    /\ UNCHANGED <<wf, registered, taskRegistered, status, current_step, completed_steps,
                   failed_steps, pc, idx, inRetry, sem, cancelReq, handlerCalls, ctlVars, notStep>>

\* resumed after the final broadcast: return result / raise; a child task of the
\* workflow-level gather leaves "async with semaphore"
StepEndBcastDone(i) ==
    /\ StepActive(i) /\ run[i].phase = "end_bcast"
    /\ run' = [run EXCEPT ![i].phase = IF run[i].ok THEN "returned" ELSE "raised"]
    /\ IF wf.type = "parallel"
       THEN sem' = sem + 1 /\ UNCHANGED pc
       ELSE pc' = "step_ret" /\ UNCHANGED sem
    /\ UNCHANGED <<wf, registered, taskRegistered, status, current_step, completed_steps,
                   failed_steps, step_contexts, idx, inRetry, cancelReq, handlerCalls,
                   startBcasts, ctlVars, notFlat>>

\* ------------------------------------------------- _execute_workflow_async
\* the step loop is left (exhausted or break): lines 205-207
LoopExit ==
    /\ status' = "completed"
    /\ pc' = "final_bcast"

\* resumed after the "running" broadcast: the empty workflow completes, the others
\* are dispatched on their type  (lines 186-202, 257-272)
RunBcastDone ==
    /\ pc = "run_bcast" /\ ~cancelReq
    /\ IF NumSteps = 0
       THEN /\ status' = "completed"
            /\ pc' = "empty_bcast"
            /\ UNCHANGED <<idx, run>>
       ELSE IF wf.type = "parallel"
            THEN IF status \in {"failed", "cancelled"}
                 THEN LoopExit /\ UNCHANGED <<idx, run>>
                 ELSE /\ run' = [i \in StepIds |-> [IdleRun(i) EXCEPT !.phase = "created"]]
                      /\ pc' = "gather"
                      /\ UNCHANGED <<status, idx>>
            ELSE /\ pc' = IF wf.type = "conditional" THEN "cond_head" ELSE "seq_head"
                 /\ idx' = 1
                 /\ UNCHANGED <<status, run>>
    /\ UNCHANGED <<wf, registered, taskRegistered, current_step, completed_steps, failed_steps,
                   step_contexts, inRetry, sem, cancelReq, handlerCalls, startBcasts, ctlVars, notFlat>>

\* _mark_step_skipped up to its await
MarkSkipped(i) ==
    /\ step_contexts' = [step_contexts EXCEPT ![i].status = "skipped"]
    /\ pc' = "skip_bcast"

\* head of "for step in steps" of _execute_sequential_steps (lines 231-245)
SeqHead ==
    /\ pc = "seq_head"
    /\ IF idx > NumSteps \/ status \in {"failed", "cancelled"}
       THEN /\ LoopExit
            /\ UNCHANGED <<current_step, step_contexts, run, startBcasts>>
       ELSE /\ current_step' = idx
            /\ UNCHANGED status
            /\ IF Steps[idx].skip
               THEN MarkSkipped(idx) /\ UNCHANGED <<run, startBcasts>>
               ELSE EnterStep(idx, step_contexts) /\ pc' = "in_step"
    /\ inRetry' = FALSE
    /\ UNCHANGED <<wf, registered, taskRegistered, completed_steps, failed_steps, idx, sem,
                   cancelReq, handlerCalls, ctlVars, notFlat>>

\* head of "for step in steps" of _execute_conditional_steps (lines 281-293)
CondHead ==
    /\ pc = "cond_head"
    /\ IF idx > NumSteps \/ status \in {"failed", "cancelled"}
       THEN /\ LoopExit
            /\ UNCHANGED <<step_contexts, run, startBcasts>>
       ELSE /\ UNCHANGED status
            /\ IF Steps[idx].skip
               THEN MarkSkipped(idx) /\ UNCHANGED <<run, startBcasts>>
               ELSE EnterStep(idx, step_contexts) /\ pc' = "in_step"
    /\ UNCHANGED <<wf, registered, taskRegistered, current_step, completed_steps, failed_steps,
                   idx, inRetry, sem, cancelReq, handlerCalls, ctlVars, notFlat>>

\* resumed after the "skipped" broadcast: continue
SkipBcastDone ==
    /\ pc = "skip_bcast" /\ ~cancelReq
    /\ idx' = idx + 1
    /\ pc' = IF wf.type = "conditional" THEN "cond_head" ELSE "seq_head"
    /\ UNCHANGED <<wf, registered, taskRegistered, status, current_step, completed_steps,
                   failed_steps, step_contexts, inRetry, run, sem, cancelReq, handlerCalls,
                   startBcasts, ctlVars, notFlat>>

\* (mutant) the error path applies the retry policy of the step definition and
\* counts its attempts up to on_failure.max_retries
HandleStepErrorRetrying(i) ==
    /\ step_contexts' = [step_contexts EXCEPT
                            ![i].status = "failed",
                            ![i].retry_count = IF Steps[i].onf.action = "retry"
                                               THEN Steps[i].onf.max_retries ELSE @]
    /\ failed_steps' = Append(failed_steps, i)
    /\ pc' = "err_bcast"

\* _handle_step_error up to its await (lines 556-561)
HandleStepError(i) ==
    /\ step_contexts' = [step_contexts EXCEPT ![i].status = "failed"]
    /\ failed_steps' = Append(failed_steps, i)
    /\ pc' = "err_bcast"

\* _handle_step_failure (lines 533-552); its retry calls _execute_step once more
HandleStepFailure(i) ==
    LET policy == Steps[i].onf IN
    IF policy.action = "retry"
    THEN IF step_contexts[i].retry_count < policy.max_retries
         THEN /\ EnterStep(i, [step_contexts EXCEPT ![i].retry_count = @ + 1,
                                                     ![i].status = "pending"])
              /\ inRetry' = TRUE
              /\ pc' = "in_step"
              /\ UNCHANGED <<status, idx>>
         ELSE /\ status' = "failed"
              /\ idx' = idx + 1
              /\ pc' = "seq_head"
              /\ UNCHANGED <<step_contexts, run, startBcasts, inRetry>>
    ELSE /\ status' = IF policy.action = "continue" THEN status ELSE "failed"
         /\ idx' = idx + 1
         /\ pc' = "seq_head"
         /\ UNCHANGED <<step_contexts, run, startBcasts, inRetry>>

\* (mutant) the step is appended to completed_steps whether _execute_step returned
\* or raised
SeqStepRetAppendsAlways ==
    /\ pc = "step_ret" /\ wf.type = "sequential"
    /\ completed_steps' = Append(completed_steps, idx)
    /\ IF run[idx].phase = "raised"
       THEN /\ HandleStepError(idx)
            /\ UNCHANGED <<status, idx, run, startBcasts, inRetry>>
       ELSE /\ idx' = idx + 1
            /\ pc' = "seq_head"
            /\ UNCHANGED <<status, failed_steps, step_contexts, run, startBcasts, inRetry>>
    /\ UNCHANGED <<wf, registered, taskRegistered, current_step, sem, cancelReq, handlerCalls,
                   ctlVars, notFlat>>

\* the driver goes on after "await self._execute_step" of the sequential loop
\* (lines 245-253): the call returned, or raised into "except Exception"
SeqStepRet ==
    /\ pc = "step_ret" /\ wf.type = "sequential"
    /\ IF run[idx].phase = "raised"
       THEN /\ HandleStepError(idx)
            /\ UNCHANGED <<status, idx, completed_steps, run, startBcasts, inRetry>>
       ELSE IF inRetry
            THEN /\ idx' = idx + 1
                 /\ pc' = "seq_head"
                 /\ UNCHANGED <<status, completed_steps, failed_steps, step_contexts, run,
                                startBcasts, inRetry>>
            ELSE /\ completed_steps' = Append(completed_steps, idx)
                 /\ UNCHANGED failed_steps
                 /\ IF step_contexts[idx].status = "failed"
                    THEN HandleStepFailure(idx)
                    ELSE /\ idx' = idx + 1
                         /\ pc' = "seq_head"
                         /\ UNCHANGED <<status, step_contexts, run, startBcasts, inRetry>>
    /\ UNCHANGED <<wf, registered, taskRegistered, current_step, sem, cancelReq, handlerCalls,
                   ctlVars, notFlat>>

\* the driver goes on after "await self._execute_step" of the conditional loop
\* (line 293): an exception leaves the loop for "except Exception" (lines 215-219)
CondStepRet ==
    /\ pc = "step_ret" /\ wf.type = "conditional"
    /\ IF run[idx].phase = "raised"
       THEN /\ status' = "failed"
            /\ pc' = "fail_bcast"
            /\ UNCHANGED idx
       ELSE /\ idx' = idx + 1
            /\ pc' = "cond_head"
            /\ UNCHANGED status
    /\ UNCHANGED <<wf, registered, taskRegistered, current_step, completed_steps, failed_steps,
                   step_contexts, inRetry, run, sem, cancelReq, handlerCalls, startBcasts,
                   ctlVars, notFlat>>

\* (mutant) after the error broadcast the loop takes the same step again
ErrBcastDoneAgain ==
    /\ pc = "err_bcast" /\ ~cancelReq
    /\ pc' = IF wf.type = "parallel" THEN "par_check" ELSE "seq_head"
    /\ UNCHANGED <<wf, registered, taskRegistered, status, current_step, completed_steps,
                   failed_steps, step_contexts, idx, inRetry, run, sem, cancelReq, handlerCalls,
                   startBcasts, ctlVars, notFlat>>

\* resumed after the broadcast of _handle_step_error
ErrBcastDone ==
    /\ pc = "err_bcast" /\ ~cancelReq
    /\ idx' = idx + 1
    /\ pc' = IF wf.type = "parallel" THEN "par_check" ELSE "seq_head"
    /\ UNCHANGED <<wf, registered, taskRegistered, status, current_step, completed_steps,
                   failed_steps, step_contexts, inRetry, run, sem, cancelReq, handlerCalls,
                   startBcasts, ctlVars, notFlat>>

\* (mutant) the child task enters _execute_step without the semaphore
ChildStartUnbounded(i) ==
    /\ wf.type = "parallel" /\ pc = "gather" /\ ~cancelReq
    /\ run[i].phase = "created"
    /\ \A k \in 1..(i - 1) : run[k].phase # "created"
    /\ sem' = sem - 1
    /\ EnterStep(i, step_contexts)
    /\ UNCHANGED <<wf, registered, taskRegistered, status, current_step, completed_steps,
                   failed_steps, pc, idx, inRetry, cancelReq, handlerCalls, ctlVars, notFlat>>

\* a child task of the gather of _execute_parallel_steps runs its first step:
\* "async with semaphore", then _execute_step up to its first await; the tasks
\* are started in creation order
ChildStart(i) ==
    /\ wf.type = "parallel" /\ pc = "gather" /\ ~cancelReq
    /\ run[i].phase = "created"
    /\ \A k \in 1..(i - 1) : run[k].phase # "created"
    /\ sem > 0
    /\ sem' = sem - 1
    /\ EnterStep(i, step_contexts)
    /\ UNCHANGED <<wf, registered, taskRegistered, status, current_step, completed_steps,
                   failed_steps, pc, idx, inRetry, cancelReq, handlerCalls, ctlVars, notFlat>>

\* the gather of the group is complete (line 272)
GatherDone ==
    /\ wf.type = "parallel" /\ pc = "gather" /\ ~cancelReq
    /\ \A i \in StepIds : run[i].phase \in {"returned", "raised"}
    /\ pc' = "par_check"
    /\ idx' = 1
    /\ UNCHANGED <<wf, registered, taskRegistered, status, current_step, completed_steps,
                   failed_steps, step_contexts, inRetry, run, sem, cancelReq, handlerCalls,
                   startBcasts, ctlVars, notFlat>>

\* "for step, result in zip(group, results)" (lines 275-277); there is one group,
\* so the end of this loop ends the loop over the groups
ParCheck ==
    /\ pc = "par_check"
    /\ IF idx > NumSteps
       THEN /\ LoopExit
            /\ UNCHANGED <<idx, step_contexts, failed_steps>>
       ELSE IF run[idx].phase = "raised"
            THEN /\ HandleStepError(idx)
                 /\ UNCHANGED <<status, idx>>
            ELSE /\ idx' = idx + 1
                 /\ UNCHANGED <<status, pc, step_contexts, failed_steps>>
    /\ UNCHANGED <<wf, registered, taskRegistered, current_step, completed_steps, inRetry, run,
                   sem, cancelReq, handlerCalls, startBcasts, ctlVars, notFlat>>

\* resumed after the broadcast of the completed status: return, finally
FinalBcastDone ==
    /\ pc \in {"final_bcast", "empty_bcast"} /\ ~cancelReq
    /\ Cleanup
    /\ UNCHANGED <<wf, status, current_step, completed_steps, failed_steps, step_contexts,
                   idx, inRetry, run, sem, cancelReq, handlerCalls, startBcasts, ctlVars, notFlat>>

\* resumed after the broadcast made in an except block: finally
HandlerBcastDone ==
    /\ pc \in HandlerSuspensions /\ ~cancelReq
    /\ Cleanup
    /\ UNCHANGED <<wf, status, current_step, completed_steps, failed_steps, step_contexts,
                   idx, inRetry, run, sem, cancelReq, handlerCalls, startBcasts, ctlVars, notFlat>>

\* ---------------------------------------------- a broadcast that raises
\* await self.websocket_manager.broadcast_to_user(...) raises in _update_step_status
\* called from the try block of _execute_step (lines 304, 323): except Exception
\* marks the step FAILED and awaits _update_step_status again
StepBcastFails(i) ==
    /\ StepActive(i)
    /\ run[i].phase = "start_bcast" \/ (run[i].phase = "end_bcast" /\ run[i].ok)
    /\ StepFailed(i, run[i])
    /\ UNCHANGED <<wf, registered, taskRegistered, status, current_step, completed_steps,
                   failed_steps, pc, idx, inRetry, sem, cancelReq, handlerCalls, ctlVars, notStep>>

\* the broadcast awaited by the driver in its try block raises: except Exception
\* of _execute_workflow_async sets FAILED and awaits _update_execution_status
ExecBcastFails ==
    /\ pc \in {"run_bcast", "empty_bcast", "skip_bcast", "err_bcast", "final_bcast"}
    /\ ~cancelReq
    /\ status' = "failed"
    /\ pc' = "fail_bcast"
    /\ UNCHANGED <<wf, registered, taskRegistered, current_step, completed_steps, failed_steps,
                   step_contexts, idx, inRetry, run, sem, cancelReq, handlerCalls, startBcasts,
                   ctlVars, notFlat>>

\* ------------------------------------------------ cancel / pause / resume
\* a client call can run when the driver is suspended (or not running at all)
ClientMayRun == ~Busy /\ pc # "none" /\ calls < MaxCalls

StepStatuses == [i \in StepIds |-> step_contexts[i].status]

\* cancel_execution (lines 619-640).  All its writes come before its first await;
\* the broadcast and the audit call that follow write nothing, and it returns True.
\* Task.cancel() on a task that is done changes nothing.
CancelExecution ==
    /\ ClientMayRun
    /\ calls' = calls + 1
    /\ lastCall' = [op |-> "cancel", ret |-> registered]
    /\ IF ~registered
       THEN UNCHANGED <<status, cancelReq, cancelCalls, lastCtl, snap, ctlBcasts, auditEvents>>
       ELSE /\ status' = "cancelled"
            /\ cancelReq' = (cancelReq \/ (taskRegistered /\ pc # "done"))
            /\ cancelCalls' = cancelCalls + 1
            /\ lastCtl' = "cancel"
            /\ snap' = IF lastCtl = "cancel" THEN snap ELSE StepStatuses
            /\ ctlBcasts' = ctlBcasts + 1
            /\ auditEvents' = auditEvents + 1
    /\ UNCHANGED <<wf, registered, taskRegistered, current_step, completed_steps, failed_steps,
                   step_contexts, pc, idx, inRetry, run, sem, handlerCalls, startBcasts,
                   notFlat>>

\* pause_execution (lines 644-660)
PauseExecution ==
    /\ ClientMayRun
    /\ calls' = calls + 1
    /\ lastCall' = [op |-> "pause", ret |-> registered]
    /\ IF ~registered
       THEN UNCHANGED <<status, lastCtl, ctlBcasts, auditEvents>>
       ELSE /\ status' = "paused" /\ lastCtl' = "pause"
            /\ ctlBcasts' = ctlBcasts + 1
            /\ auditEvents' = auditEvents + 1
    /\ UNCHANGED <<wf, registered, taskRegistered, current_step, completed_steps, failed_steps,
                   step_contexts, pc, idx, inRetry, run, sem, cancelReq, handlerCalls,
                   startBcasts, cancelCalls, snap, notFlat>>

\* (mutant) resume_execution without the test of the status
ResumeExecutionUnchecked ==
    /\ ClientMayRun
    /\ calls' = calls + 1
    /\ lastCall' = [op |-> "resume", ret |-> registered]
    /\ IF ~registered
       THEN UNCHANGED <<status, lastCtl, ctlBcasts, auditEvents>>
       ELSE /\ status' = "running" /\ lastCtl' = "resume"
            /\ ctlBcasts' = ctlBcasts + 1
            /\ auditEvents' = auditEvents + 1
    /\ UNCHANGED <<wf, registered, taskRegistered, current_step, completed_steps, failed_steps,
                   step_contexts, pc, idx, inRetry, run, sem, cancelReq, handlerCalls,
                   startBcasts, cancelCalls, snap, notFlat>>

\* resume_execution (lines 664-683)
ResumeExecution ==
    /\ ClientMayRun
    /\ calls' = calls + 1
    /\ lastCall' = [op |-> "resume", ret |-> (registered /\ status = "paused")]
    /\ IF ~registered \/ status # "paused"
       THEN UNCHANGED <<status, lastCtl, ctlBcasts, auditEvents>>
       ELSE /\ status' = "running" /\ lastCtl' = "resume"
            /\ ctlBcasts' = ctlBcasts + 1
            /\ auditEvents' = auditEvents + 1
    /\ UNCHANGED <<wf, registered, taskRegistered, current_step, completed_steps, failed_steps,
                   step_contexts, pc, idx, inRetry, run, sem, cancelReq, handlerCalls,
                   startBcasts, cancelCalls, snap, notFlat>>

\* ------------------------------------------------------------ the deadline
\* context.timeout is set by execute_workflow (line 126).  Time goes by: the
\* deadline passes while the execution is running.  No code reads the field, so
\* nothing else changes.
DeadlineExpires ==
    /\ ~Busy /\ pc \notin {"none", "done"}
    /\ status = "running"
    /\ ~deadlinePassed
    /\ deadlinePassed' = TRUE
    /\ UNCHANGED <<flatVars, ctlVars, visVars, createVars, dataVars, libVars>>

\* ------------------------------------------------------- visual workflows
Nodes == 1..vnodes

\* the pairs joined by two consecutive edges
Compose(R) == {<<q[1][1], q[2][2]>> : q \in {p \in R \X R : p[1][2] = p[2][1]}}
RECURSIVE Closure(_)
\* the transitive closure of a set of edges
Closure(R) == LET R2 == R \cup Compose(R) IN IF R2 = R THEN R ELSE Closure(R2)
\* no node reaches itself along the edges
IsAcyclic(E) == \A p \in Closure(E) : p[1] # p[2]

\* _build_execution_graph (lines 920-942)
BuildExecutionGraph(n, E) ==
    [v \in 1..n |->
        [dependencies |-> {e[1] : e \in {f \in E : f[2] = v /\ f[1] \in 1..n}},
         dependents |-> {e[2] : e \in {f \in E : f[1] = v /\ f[2] \in 1..n}},
         status |-> "pending",
         executed |-> FALSE]]

\* the ready nodes at the start of _execute_visual_nodes (lines 952-955)
FirstReadyNodes(g) ==
    {v \in DOMAIN g : g[v].dependencies = {} /\ ~g[v].executed}

\* (mutant) any() in place of all() over the dependencies
NextReadyNodesAny(g) ==
    {v \in DOMAIN g : ~g[v].executed /\ \E dep \in g[v].dependencies : g[dep].executed}

\* (mutant) the scheduler stops after the first wave
NextReadyNodesNone(g) == {}

\* the ready nodes after a wave (lines 974-980)
NextReadyNodes(g) ==
    {v \in DOMAIN g : ~g[v].executed /\ \A dep \in g[v].dependencies : g[dep].executed}

InitVisIdle ==
    /\ vnodes = 0
    /\ vedges = {}
    /\ vstatus = "pending"
    /\ vpc = "none"
    /\ graph = <<>>
    /\ ready = {}
    /\ vphase = <<>>
    /\ vresults = <<>>
    /\ vruns = <<>>

InitVisual ==
    /\ vnodes \in 0..MaxNodes
    /\ vedges \in {E \in SUBSET ((1..vnodes) \X (1..vnodes)) : IsAcyclic(E)}
    /\ vstatus = "pending"
    /\ vpc = "none"
    /\ graph = <<>>
    /\ ready = {}
    /\ vphase = [v \in Nodes |-> "idle"]
    /\ vresults = [v \in Nodes |-> "none"]
    /\ vruns = [v \in Nodes |-> 0]

\* execute_visual_workflow: registers the context and the driver task it spawns
\* (lines 842-845)
ExecuteVisualWorkflow ==
    /\ vpc = "none"
    /\ registered' = TRUE
    /\ taskRegistered' = TRUE
    /\ vpc' = "spawned"
    /\ UNCHANGED <<vnodes, vedges, vstatus, graph, ready, vphase, vresults, vruns,
                   wf, status, current_step, completed_steps, failed_steps, step_contexts,
                   pc, idx, inRetry, run, sem, cancelReq, handlerCalls, startBcasts,
                   ctlVars, clockVars, createVars, dataVars, libVars>>

\* context.status = RUNNING; await _update_execution_status (lines 880-881)
VisualDriverStart ==
    /\ vpc = "spawned"
    /\ vstatus' = "running"
    /\ vpc' = "run_bcast"
    /\ UNCHANGED <<vnodes, vedges, graph, ready, vphase, vresults, vruns, notVis>>

\* "while ready_nodes": a task per ready node and the gather, or the end of
\* _execute_visual_nodes and lines 893-895
RunWave(g, rdy) ==
    /\ graph' = g
    /\ ready' = rdy
    /\ IF rdy # {}
       THEN /\ vphase' = [v \in Nodes |-> IF v \in rdy THEN "created" ELSE vphase[v]]
            /\ vpc' = "gather"
            /\ UNCHANGED vstatus
       ELSE /\ vstatus' = "completed"
            /\ vpc' = "final_bcast"
            /\ UNCHANGED vphase

\* resumed after the "running" broadcast: the graph is built and the first wave
\* is started (lines 883-890, 952-967)
VisualRunBcastDone ==
    /\ vpc = "run_bcast"
    /\ LET g == BuildExecutionGraph(vnodes, vedges) IN RunWave(g, FirstReadyNodes(g))
    /\ UNCHANGED <<vnodes, vedges, vresults, vruns, notVis>>

\* the task of a ready node runs its first step: status RUNNING, then the await
\* in _update_visual_node_status (lines 994-1000); tasks start in creation order
VisualNodeStart(v) ==
    /\ vpc = "gather" /\ vphase[v] = "created"
    /\ \A u \in 1..(v - 1) : vphase[u] # "created"
    /\ graph' = [graph EXCEPT ![v].status = "running"]
    /\ vphase' = [vphase EXCEPT ![v] = "start_bcast"]
    /\ vruns' = [vruns EXCEPT ![v] = @ + 1]
    /\ UNCHANGED <<vnodes, vedges, vstatus, vpc, ready, vresults, notVis>>

\* resumed after the broadcast: the node's executor is awaited (lines 1003-1016)
VisualNodeStartBcastDone(v) ==
    /\ vpc = "gather" /\ vphase[v] = "start_bcast"
    /\ vphase' = [vphase EXCEPT ![v] = "exec"]
    /\ UNCHANGED <<vnodes, vedges, vstatus, vpc, graph, ready, vresults, vruns, notVis>>

\* the executor returns a result with its success flag; the executors catch their
\* exceptions themselves (lines 1019-1023)
VisualNodeExecDone(v, success) ==
    /\ vpc = "gather" /\ vphase[v] = "exec"
    /\ vresults' = [vresults EXCEPT ![v] = IF success THEN "success" ELSE "failure"]
    /\ graph' = [graph EXCEPT ![v].status = IF success THEN "completed" ELSE "failed"]
    /\ vphase' = [vphase EXCEPT ![v] = "end_bcast"]
    /\ UNCHANGED <<vnodes, vedges, vstatus, vpc, ready, vruns, notVis>>

\* resumed after the broadcast: _route_node_result, and the task ends (line 1026)
VisualNodeEndBcastDone(v) ==
    /\ vpc = "gather" /\ vphase[v] = "end_bcast"
    /\ vphase' = [vphase EXCEPT ![v] = "done"]
    /\ UNCHANGED <<vnodes, vedges, vstatus, vpc, graph, ready, vresults, vruns, notVis>>

\* the gather of the wave is complete: its nodes are marked executed and the next
\* ready nodes are found (lines 967-980)
VisualGatherDone ==
    /\ vpc = "gather"
    /\ \A v \in ready : vphase[v] = "done"
    /\ LET g == [v \in Nodes |-> IF v \in ready THEN [graph[v] EXCEPT !.executed = TRUE]
                                                ELSE graph[v]]
       IN  RunWave(g, NextReadyNodes(g))
    /\ UNCHANGED <<vnodes, vedges, vresults, vruns, notVis>>

\* resumed after the broadcast of the completed status and the completion
\* broadcast (lines 895-905): the task ends
VisualFinalBcastDone ==
    /\ vpc = "final_bcast"
    /\ vpc' = "done"
    /\ UNCHANGED <<vnodes, vedges, vstatus, graph, ready, vphase, vresults, vruns, notVis>>

\* ------------------------------------------------- create_visual_workflow
\* The node ids passed are 1..n; an edge may name the id n + 1, which is the id
\* of no node.
EdgeSet(es) == {es[k] : k \in DOMAIN es}

\* the adjacency list built by _has_cycles (lines 1404-1406): per node id the
\* targets of its edges, in list order
RECURSIVE Targets(_, _)
Targets(es, v) ==
    IF es = <<>> THEN <<>>
    ELSE IF Head(es)[1] = v THEN <<Head(es)[2]>> \o Targets(Tail(es), v)
         ELSE Targets(Tail(es), v)
Adjacency(n, es) == [v \in 1..n |-> Targets(es, v)]

\* dfs(node) of _has_cycles (lines 1412-1424), with the sets visited and rec_stack
\* it shares; res is "true" / "false" for its return value and "exc" for the
\* KeyError raised by graph[node] when node is the id of no node
RECURSIVE Dfs(_, _, _, _), DfsNeighbors(_, _, _, _, _)
Dfs(adj, node, visited, stack) ==
    IF node \notin DOMAIN adj
    THEN [visited |-> visited \cup {node}, stack |-> stack \cup {node}, res |-> "exc"]
    ELSE DfsNeighbors(adj, node, adj[node], visited \cup {node}, stack \cup {node})
DfsNeighbors(adj, node, nbrs, visited, stack) ==
    IF nbrs = <<>>
    THEN [visited |-> visited, stack |-> stack \ {node}, res |-> "false"]
    ELSE LET nb == Head(nbrs) IN
         IF nb \notin visited
         THEN LET r == Dfs(adj, nb, visited, stack) IN
              IF r.res # "false" THEN r
              ELSE DfsNeighbors(adj, node, Tail(nbrs), r.visited, r.stack)
         ELSE IF nb \in stack
              THEN [visited |-> visited, stack |-> stack, res |-> "true"]
              ELSE DfsNeighbors(adj, node, Tail(nbrs), visited, stack)

\* "for node in graph" of _has_cycles (lines 1426-1429), from node id v on
RECURSIVE DfsFrom(_, _, _, _)
DfsFrom(adj, n, v, visited) ==
    IF v > n THEN "false"
    ELSE IF v \in visited THEN DfsFrom(adj, n, v + 1, visited)
         ELSE LET r == Dfs(adj, v, visited, {}) IN
              IF r.res # "false" THEN r.res ELSE DfsFrom(adj, n, v + 1, r.visited)

\* _has_cycles (lines 1396-1434): an edge whose source is no node raises KeyError
\* while the adjacency list is built; "except Exception: return False"
HasCycles(n, es) ==
    IF \E k \in DOMAIN es : es[k][1] \notin 1..n
    THEN FALSE
    ELSE DfsFrom(Adjacency(n, es), n, 1, {}) = "true"

\* _validate_visual_workflow (lines 1375-1390) raises
ValidationRaises(n, es, typesOk) ==
    \/ HasCycles(n, es)
    \/ ~typesOk
    \/ \E k \in DOMAIN es : es[k][1] \notin 1..n \/ es[k][2] \notin 1..n

NewEdgeLists(n) ==
    UNION {[1..k -> (1..(n + 1)) \X (1..(n + 1))] : k \in 0..MaxNewEdges}

InitCreate ==
    /\ cnodes \in 0..MaxNewNodes
    /\ cedges \in NewEdgeLists(cnodes)
    /\ ctypesOk \in BOOLEAN
    /\ cpc = "none"
    /\ persisted = 0

\* create_visual_workflow up to its first suspension (lines 733-760): validation,
\* then the workflow record is added and committed, or the exception is re-raised
CreateVisualWorkflow ==
    /\ cpc = "none"
    /\ IF ValidationRaises(cnodes, cedges, ctypesOk)
       THEN cpc' = "raised" /\ UNCHANGED persisted
       ELSE cpc' = "audit" /\ persisted' = persisted + 1
    /\ UNCHANGED <<cnodes, cedges, ctypesOk, notCreate>>

\* resumed after the audit call: the creation is broadcast (lines 773-782)
CreateAuditDone ==
    /\ cpc = "audit"
    /\ cpc' = "bcast"
    /\ UNCHANGED <<cnodes, cedges, ctypesOk, persisted, notCreate>>

\* resumed after the broadcast: return workflow_id (line 785)
CreateBcastDone ==
    /\ cpc = "bcast"
    /\ cpc' = "returned"
    /\ UNCHANGED <<cnodes, cedges, ctypesOk, persisted, notCreate>>

\* ------------------------------------------------------------ specification
LeafStepNext ==
    \/ \E i \in StepIds : StepStartBcastDone(i)
    \/ \E i \in StepIds : TaskHandlerDone(i)
    \/ \E i \in StepIds : StepEndBcastDone(i)
    \/ \E i \in StepIds : ChildStart(i)

NestedStepNext ==
    \/ \E i \in StepIds : ParallelHandlerDone(i)
    \/ \E i \in StepIds : \E j \in DOMAIN Steps[i].nested : NestedChildStart(i, j)
    \/ \E i \in StepIds : \E j \in DOMAIN Steps[i].nested : NestedStartBcastDone(i, j)
    \/ \E i \in StepIds : \E j \in DOMAIN Steps[i].nested : NestedHandlerDone(i, j)
    \/ \E i \in StepIds : \E j \in DOMAIN Steps[i].nested : NestedEndBcastDone(i, j)

DriverNext ==
    \/ ExecuteWorkflow
    \/ DriverStart
    \/ RunBcastDone
    \/ SeqHead
    \/ CondHead
    \/ SkipBcastDone
    \/ SeqStepRet
    \/ CondStepRet
    \/ ErrBcastDone
    \/ GatherDone
    \/ ParCheck
    \/ FinalBcastDone
    \/ HandlerBcastDone

ClientNext ==
    \/ CancelExecution
    \/ PauseExecution
    \/ ResumeExecution
    \/ DriverCancelledUnstarted
    \/ DriverCancelled
    \/ DriverCancelledInHandler

VisualNext ==
    \/ ExecuteVisualWorkflow
    \/ VisualDriverStart
    \/ VisualRunBcastDone
    \/ \E v \in Nodes : VisualNodeStart(v)
    \/ \E v \in Nodes : VisualNodeStartBcastDone(v)
    \/ \E v \in Nodes : \E success \in BOOLEAN : VisualNodeExecDone(v, success)
    \/ \E v \in Nodes : VisualNodeEndBcastDone(v)
    \/ VisualGatherDone
    \/ VisualFinalBcastDone

\* Spec: every workflow shape, driven to its end without client calls.
Init == InitFlat /\ InitCtl /\ InitVisIdle /\ InitClock /\ InitLibIdle /\ InitCreateIdle /\ InitData
Next == DriverNext \/ LeafStepNext \/ NestedStepNext
Spec == Init /\ [][Next]_vars

\* SpecCtl: workflows of leaf steps, with cancel / pause / resume calls made at
\* any await of the driver.
InitCtlSpec == InitFlat /\ wf \in LeafWorkflows /\ InitCtl /\ InitVisIdle /\ InitClock /\ InitLibIdle /\ InitCreateIdle /\ InitData
NextCtl == DriverNext \/ LeafStepNext \/ ClientNext
SpecCtl == InitCtlSpec /\ [][NextCtl]_vars

\* SpecDeadline: workflows of leaf steps whose deadline may pass at any await.
NextDeadline == DriverNext \/ LeafStepNext \/ DeadlineExpires
SpecDeadline == InitCtlSpec /\ [][NextDeadline]_vars

\* SpecVisual: one execution of every acyclic visual workflow of up to MaxNodes nodes.
NoWorkflow == [type |-> "sequential", steps |-> <<>>]
InitVisualSpec == InitFlat /\ wf = NoWorkflow /\ InitCtl /\ InitVisual /\ InitClock /\ InitLibIdle /\ InitCreateIdle /\ InitData
SpecVisual == InitVisualSpec /\ [][VisualNext]_vars
\* the event loop runs every task that is ready, and the node executors return
SpecVisualFair == SpecVisual /\ WF_vars(VisualNext)

\* SpecPar: a parallel workflow of more steps than max_parallel_steps; the first
\* step's handler returns or raises, the other handlers return.
FailingStep == [kind |-> "task", fails |-> TRUE, skip |-> FALSE, onf |-> NoPolicy,
                items |-> 0, nested |-> <<>>]
WideWorkflows ==
    {[type |-> "parallel",
      steps |-> [i \in 1..(MaxParallelSteps + MaxOverCap) |-> IF i = 1 THEN s ELSE PlainStep]] :
        s \in {PlainStep, FailingStep}}
InitPar ==
    /\ wf \in WideWorkflows
    /\ InitExecution /\ InitCtl /\ InitVisIdle /\ InitClock /\ InitLibIdle /\ InitCreateIdle /\ InitData
NextPar ==
    \/ ExecuteWorkflow
    \/ DriverStart
    \/ RunBcastDone
    \/ GatherDone
    \/ ParCheck
    \/ ErrBcastDone
    \/ FinalBcastDone
    \/ LeafStepNext
SpecPar == InitPar /\ [][NextPar]_vars

\* SpecFan: a sequential workflow whose first step is a parallel step with more
\* nested steps than max_parallel_steps; the nested steps carry the ids of the
\* steps that follow it, so each of them has a StepContext.
FanStep(f) ==
    [kind |-> "parallel", fails |-> FALSE, skip |-> FALSE, onf |-> NoPolicy, items |-> 0,
     nested |-> [j \in 1..(MaxParallelSteps + MaxOverCap) |->
                    [id |-> j + 1, fails |-> (f /\ j = 1)]]]
FanWorkflows ==
    {[type |-> "sequential",
      steps |-> [i \in 1..(MaxParallelSteps + MaxOverCap + 1) |->
                    IF i = 1 THEN FanStep(f) ELSE PlainStep]] : f \in BOOLEAN}
InitFan ==
    /\ wf \in FanWorkflows
    /\ InitExecution /\ InitCtl /\ InitVisIdle /\ InitClock /\ InitLibIdle /\ InitCreateIdle /\ InitData
NextFan ==
    \/ ExecuteWorkflow
    \/ DriverStart
    \/ RunBcastDone
    \/ SeqHead
    \/ SeqStepRet
    \/ FinalBcastDone
    \/ \E i \in StepIds : StepStartBcastDone(i)
    \/ \E i \in StepIds : TaskHandlerDone(i)
    \/ \E i \in StepIds : StepEndBcastDone(i)
    \/ NestedStepNext
SpecFan == InitFan /\ [][NextFan]_vars

\* SpecCapOne: workflows of leaf steps run on a context whose max_parallel_steps
\* is 1 (execute_workflow always leaves the default; the field is set on the
\* context).
InitCapOne ==
    /\ wf \in LeafWorkflows
    /\ InitExecutionWith(1) /\ InitCtl /\ InitVisIdle /\ InitClock /\ InitLibIdle /\ InitCreateIdle /\ InitData
NextCapOne == DriverNext \/ LeafStepNext
SpecCapOne == InitCapOne /\ [][NextCapOne]_vars

\* SpecData: workflows of leaf steps, each step with or without an output_variable.
InitDataSpec ==
    /\ InitFlat /\ wf \in LeafWorkflows /\ InitCtl /\ InitVisIdle /\ InitClock /\ InitLibIdle /\ InitCreateIdle
    /\ InitDataWith([StepIds -> VarNames \cup {0}])
NextData == DriverNext \/ LeafStepNext
SpecData == InitDataSpec /\ [][NextData]_vars

\* SpecBcastFail: workflows of leaf steps; each broadcast awaited by the
\* orchestrator returns or raises.
NextBcastFail ==
    \/ DriverNext
    \/ LeafStepNext
    \/ \E i \in StepIds : StepBcastFails(i)
    \/ ExecBcastFails
SpecBcastFail == InitCtlSpec /\ [][NextBcastFail]_vars

\* SpecCreate: one call of create_visual_workflow on every node / edge list.
NextCreate == CreateVisualWorkflow \/ CreateAuditDone \/ CreateBcastDone
InitCreateSpec == InitFlat /\ wf = NoWorkflow /\ InitCtl /\ InitVisIdle /\ InitClock /\ InitLibIdle /\ InitCreate /\ InitData
SpecCreate == InitCreateSpec /\ [][NextCreate]_vars

\* an orchestrator without execution and without call
InitIdle ==
    /\ wf = NoWorkflow /\ InitExecution /\ InitCtl /\ InitVisIdle /\ InitClock
    /\ InitCreateIdle /\ InitData
notLib == <<flatVars, ctlVars, visVars, clockVars, createVars, dataVars, svcVars>>
\* the orchestrator and the functions and services above
notSvc == <<flatVars, ctlVars, visVars, clockVars, createVars, dataVars,
            interpVars, wsVars, brainVars>>
InitNotSvc == InitIdle /\ InitInterpIdle /\ InitWs /\ InitBrain
notSel == <<notSvc, auditVars, agentVars, entVars, discVars, startVars>>
notAudit == <<notSvc, selVars, agentVars, entVars, discVars, startVars>>
notAgent == <<notSvc, selVars, auditVars, entVars, discVars, startVars>>
notEnt == <<notSvc, selVars, auditVars, agentVars, discVars, startVars>>
\* what a disconnect call leaves alone besides the registries
notDisc == <<now, sockets, bcastVars, sweepVars, interpVars, brainVars, flatVars, ctlVars,
             visVars, clockVars, createVars, dataVars, selVars, auditVars, agentVars, entVars,
             startVars>>

\* ------------------------------------------------ _interpolate_variables
\* Strings are sequences of characters.  A value is a string, an integer, a
\* list of values or a dict from string keys to values.
StrV(s) == [kind |-> "str", s |-> s]
IntV(n) == [kind |-> "int", n |-> n]
ListV(xs) == [kind |-> "list", items |-> xs]
DictV(es) == [kind |-> "dict", entries |-> es]

\* str(value) of a string and of a non-negative integer
DigitChars == <<"0", "1", "2", "3", "4", "5", "6", "7", "8", "9">>
RECURSIVE IntStr(_)
IntStr(n) == IF n < 10 THEN <<DigitChars[n + 1]>>
             ELSE IntStr(n \div 10) \o <<DigitChars[(n % 10) + 1]>>
Str(v) == IF v.kind = "str" THEN v.s ELSE IntStr(v.n)

\* f"${{{key}}}"
Placeholder(key) == <<"$", "{">> \o key \o <<"}">>

\* str.replace(old, new) for a non-empty old: the occurrences of old are
\* replaced from the left, without overlap
StartsWith(s, i, old) ==
    /\ i + Len(old) - 1 <= Len(s)
    /\ SubSeq(s, i, i + Len(old) - 1) = old
RECURSIVE ReplaceFrom(_, _, _, _)
ReplaceFrom(s, i, old, new) ==
    IF i > Len(s) THEN <<>>
    ELSE IF StartsWith(s, i, old)
         THEN new \o ReplaceFrom(s, i + Len(old), old, new)
         ELSE <<s[i]>> \o ReplaceFrom(s, i + 1, old, new)
Replace(s, old, new) == ReplaceFrom(s, 1, old, new)

\* for key, value in variables.items(): template = template.replace(...)
RECURSIVE InterpolateStr(_, _, _)
InterpolateStr(s, items, k) ==
    IF k > Len(items) THEN s
    ELSE InterpolateStr(Replace(s, Placeholder(items[k].key), Str(items[k].value)),
                        items, k + 1)

\* _interpolate_variables(template, variables)
RECURSIVE InterpolateVariables(_, _)
InterpolateVariables(template, items) ==
    CASE template.kind = "str" -> StrV(InterpolateStr(template.s, items, 1))
      [] template.kind = "dict" ->
            DictV([e \in DOMAIN template.entries |->
                     [key |-> template.entries[e].key,
                      value |-> InterpolateVariables(template.entries[e].value, items)]])
      [] template.kind = "list" ->
            ListV([e \in DOMAIN template.items |->
                     InterpolateVariables(template.items[e], items)])
      [] OTHER -> template

\* The inputs: string templates are concatenations of at most MaxPieces pieces;
\* lists and dicts hold placeholders, plain strings and integers, two levels deep.
Keys == {<<"a">>, <<"b">>}
Pieces == {<<"$", "{">>, <<"}">>} \cup Keys
RECURSIVE PieceStrings(_)
PieceStrings(n) ==
    IF n = 0 THEN {<<>>}
    ELSE LET p == PieceStrings(n - 1) IN p \cup {s \o q : s \in p, q \in Pieces}
Elements == {StrV(Placeholder(k)) : k \in Keys} \cup {StrV(<<"a">>), IntV(MaxValue)}
Containers(E) ==
    {ListV(<<x>>) : x \in E} \cup {ListV(<<x, y>>) : x \in Elements, y \in E}
    \cup {DictV(<<[key |-> <<"k">>, value |-> x]>>) : x \in E}
Templates ==
    {StrV(s) : s \in PieceStrings(MaxPieces)} \cup {IntV(MaxValue)}
    \cup Containers(Elements) \cup Containers(Containers(Elements))
Values == {StrV(<<>>), StrV(<<"a">>), StrV(<<"b">>), IntV(MaxValue)}
\* dicts of at most two entries, in either insertion order
ItemLists ==
    {<<>>} \cup {<<[key |-> k, value |-> v]>> : k \in Keys, v \in Values}
    \cup UNION {{<<[key |-> k1, value |-> v1], [key |-> k2, value |-> v2]>> :
                    k2 \in Keys \ {k1}, v1 \in Values, v2 \in Values} : k1 \in Keys}

InitInterp ==
    /\ tmpl \in Templates /\ ivars \in ItemLists
    /\ once = <<>> /\ twice = <<>> /\ ipc = "ready"
InterpolateOnce ==
    /\ ipc = "ready"
    /\ once' = InterpolateVariables(tmpl, ivars)
    /\ ipc' = "once"
    /\ UNCHANGED <<tmpl, ivars, twice, wsVars, brainVars, notLib>>
InterpolateAgain ==
    /\ ipc = "once"
    /\ twice' = InterpolateVariables(once, ivars)
    /\ ipc' = "twice"
    /\ UNCHANGED <<tmpl, ivars, once, wsVars, brainVars, notLib>>
NextInterp == InterpolateOnce \/ InterpolateAgain
InitInterpSpec == InitIdle /\ InitInterp /\ InitWs /\ InitBrain /\ InitSvcIdle
SpecInterp == InitInterpSpec /\ [][NextInterp]_vars

\* ------------------------------------------------------ WebSocketManager
\* One user and one session connect; a connection id is the window type and the
\* clock reading of f"{window_type.value}_{user_id}_{session_id}_{timestamp}".
Registered(ac) == {c \in ConnIds : ac[c] # NoConn}
ConnectionId(w, t) == <<w, t>>
WindowOf(c) == c[1]

\* list.remove(x): the first occurrence of x leaves the list
RECURSIVE IndexOf(_, _, _)
IndexOf(list, x, k) ==
    IF k > Len(list) THEN 0 ELSE IF list[k] = x THEN k ELSE IndexOf(list, x, k + 1)
ListRemove(list, x) ==
    LET k == IndexOf(list, x, 1) IN
    IF k = 0 THEN list ELSE SubSeq(list, 1, k - 1) \o SubSeq(list, k + 1, Len(list))

\* disconnect(connection_id) on the registries ac, wc and the closed sockets cl
DisconnectIn(ac, wc, cl, c) ==
    IF ac[c] = NoConn THEN [ac |-> ac, wc |-> wc, cl |-> cl]
    ELSE [ac |-> [ac EXCEPT ![c] = NoConn],
          wc |-> [wc EXCEPT ![WindowOf(c)] = ListRemove(@, c)],
          cl |-> cl \cup {ac[c].ws}]

\* connect(websocket, window_type): accept, register under the id built from the
\* clock, send the welcome message; a failing send disconnects the connection
WsConnect(w, ok) ==
    /\ sockets < MaxConns
    /\ LET k == sockets + 1
           c == ConnectionId(w, now)
           ac == [active_connections EXCEPT ![c] = [ws |-> k, last_activity |-> now]]
           wc == [window_connections EXCEPT ![w] = Append(@, c)]
           d == DisconnectIn(ac, wc, closed, c)
       IN  /\ sockets' = k
           /\ active_connections' = IF ok THEN ac ELSE d.ac
           /\ window_connections' = IF ok THEN wc ELSE d.wc
           /\ closed' = IF ok THEN closed ELSE d.cl
    /\ UNCHANGED <<now, bcastVars, sweepVars, interpVars, brainVars, notLib>>

\* the endpoint calls disconnect when the client has gone (WebSocketDisconnect)
WsDisconnect(c) ==
    /\ active_connections[c] # NoConn
    /\ LET d == DisconnectIn(active_connections, window_connections, closed, c) IN
       /\ active_connections' = d.ac
       /\ window_connections' = d.wc
       /\ closed' = d.cl
    /\ UNCHANGED <<now, sockets, bcastVars, sweepVars, interpVars, brainVars, notLib>>

\* handle_message: a message of the client refreshes last_activity
WsHandleMessage(c) ==
    /\ active_connections[c] # NoConn
    /\ active_connections[c].last_activity < now
    /\ active_connections' = [active_connections EXCEPT ![c].last_activity = now]
    /\ UNCHANGED <<window_connections, now, sockets, closed, bcastVars, sweepVars,
                   interpVars, brainVars, notLib>>

\* time passes
Tick ==
    /\ now < MaxTime
    /\ now' = now + 1
    /\ UNCHANGED <<active_connections, window_connections, sockets, closed, bcastVars,
                   sweepVars, interpVars, brainVars, notLib>>

\* The list iterated by the broadcast: broadcast_to_window iterates the list
\* object of window_connections itself, broadcast_to_all a copy of the keys.
BcastList(wc) == IF bkind = "window" THEN wc[bwt] ELSE biter
\* the for loop from iterator position k on: send_message returns at once for
\* an id that is not registered; the first id that is registered is sent to.
\* Result: the position after that id, or 0 when the iterator is exhausted.
RECURSIVE NextSend(_, _, _)
NextSend(list, k, ac) ==
    IF k >= Len(list) THEN 0
    ELSE IF ac[list[k + 1]] # NoConn THEN k + 1 ELSE NextSend(list, k + 1, ac)
\* the loop goes on from position k: it awaits the next send_text, or ends
BcastContinue(list, k, ac) ==
    LET n == NextSend(list, k, ac) IN
    IF n = 0
    THEN bpc' = "done" /\ bidx' = Len(list) /\ bcur' = <<>>
    ELSE bpc' = "sending" /\ bidx' = n /\ bcur' = list[n]

\* the ordered keys of active_connections: one order of the registered ids
RECURSIVE SeqOf(_)
SeqOf(S) == IF S = {} THEN <<>>
            ELSE LET x == CHOOSE y \in S : TRUE IN <<x>> \o SeqOf(S \ {x})

BroadcastToWindow(w) ==
    /\ bpc = "idle" /\ spc = "idle"
    /\ bkind' = "window" /\ bwt' = w /\ biter' = <<>>
    /\ bstart' = {c \in Registered(active_connections) :
                    IndexOf(window_connections[w], c, 1) # 0}
    /\ LET n == NextSend(window_connections[w], 0, active_connections) IN
       IF n = 0
       THEN bpc' = "done" /\ bidx' = Len(window_connections[w]) /\ bcur' = <<>>
       ELSE bpc' = "sending" /\ bidx' = n /\ bcur' = window_connections[w][n]
    /\ UNCHANGED <<regVars, delivered, bfailed, sweepVars, interpVars, brainVars, notLib>>

BroadcastToAll ==
    /\ bpc = "idle" /\ spc = "idle"
    /\ bkind' = "all" /\ bwt' = "none"
    /\ bstart' = Registered(active_connections)
    /\ LET keys == SeqOf(Registered(active_connections))
           n == NextSend(keys, 0, active_connections)
       IN  /\ biter' = keys
           /\ IF n = 0
              THEN bpc' = "done" /\ bidx' = Len(keys) /\ bcur' = <<>>
              ELSE bpc' = "sending" /\ bidx' = n /\ bcur' = keys[n]
    /\ UNCHANGED <<regVars, delivered, bfailed, sweepVars, interpVars, brainVars, notLib>>

\* send_text returns: last_activity is written to the connection object and
\* the loop goes on; or it raises: the connection is disconnected, then the
\* loop goes on
BcastSendDone(ok) ==
    /\ bpc = "sending"
    /\ LET c == bcur
           d == DisconnectIn(active_connections, window_connections, closed, c)
       IN
       IF ok
       THEN /\ delivered' = IF active_connections[c] = NoConn THEN delivered
                             ELSE [delivered EXCEPT ![active_connections[c].ws] = @ + 1]
            /\ active_connections' =
                  IF active_connections[c] = NoConn THEN active_connections
                  ELSE [active_connections EXCEPT ![c].last_activity = now]
            /\ BcastContinue(BcastList(window_connections), bidx, active_connections)
            /\ UNCHANGED <<window_connections, closed, bfailed>>
       ELSE /\ active_connections' = d.ac
            /\ window_connections' = d.wc
            /\ closed' = d.cl
            /\ bfailed' = bfailed \cup {c}
            /\ BcastContinue(BcastList(d.wc), bidx, d.ac)
            /\ UNCHANGED delivered
    /\ UNCHANGED <<now, sockets, bkind, bwt, biter, bstart, sweepVars, interpVars, brainVars, notLib>>

\* cleanup_inactive_connections(timeout_minutes): the connections whose
\* last_activity is older than the timeout are collected ...
CleanupStart ==
    /\ spc = "idle" /\ bpc \in {"idle", "done"}
    /\ LET old == {c \in Registered(active_connections) :
                     now - active_connections[c].last_activity > IdleTimeout}
       IN  /\ inactive' = old
           /\ spc' = IF old = {} THEN "idle" ELSE "sweeping"
    /\ swept' = {}
    /\ UNCHANGED <<regVars, bcastVars, interpVars, brainVars, notLib>>
\* ... and disconnected one after the other (each disconnect awaits close())
CleanupDisconnect(c) ==
    /\ spc = "sweeping" /\ c \in inactive
    /\ LET d == DisconnectIn(active_connections, window_connections, closed, c) IN
       /\ active_connections' = d.ac
       /\ window_connections' = d.wc
       /\ closed' = d.cl
    /\ swept' = IF active_connections[c] = NoConn THEN swept
                 ELSE swept \cup {[id |-> c, idle |-> now - active_connections[c].last_activity]}
    /\ inactive' = inactive \ {c}
    /\ spc' = IF inactive = {c} THEN "idle" ELSE "sweeping"
    /\ UNCHANGED <<now, sockets, bcastVars, interpVars, brainVars, notLib>>

ClientNextWs ==
    \/ \E w \in WsWindowTypes, ok \in BOOLEAN : WsConnect(w, ok)
    \/ \E c \in ConnIds : WsDisconnect(c)
    \/ \E c \in ConnIds : WsHandleMessage(c)
    \/ Tick
BroadcastNext ==
    \/ \E w \in WsWindowTypes : BroadcastToWindow(w)
    \/ BroadcastToAll
    \/ \E ok \in BOOLEAN : BcastSendDone(ok)
CleanupNext ==
    \/ CleanupStart
    \/ \E c \in ConnIds : CleanupDisconnect(c)

InitWsSpec == InitIdle /\ InitInterpIdle /\ InitWs /\ InitBrain /\ InitSvcIdle
\* SpecWs: clients connect, send and leave at any time; nothing in the code
\* calls cleanup_inactive_connections, an operator may
NextWs == ClientNextWs \/ CleanupNext
SpecWs == InitWsSpec /\ [][NextWs]_vars
\* SpecBroadcast: connections are made at different clock readings; then one
\* broadcast runs, and no other call touches the registries while it runs
ConnectBefore(w) ==
    /\ bpc = "idle"
    /\ active_connections[ConnectionId(w, now)] = NoConn
    /\ WsConnect(w, TRUE)
TickBefore == bpc = "idle" /\ Tick
NextBroadcast ==
    \/ \E w \in WsWindowTypes : ConnectBefore(w)
    \/ TickBefore
    \/ BroadcastNext
SpecBroadcast == InitWsSpec /\ [][NextBroadcast]_vars

\* ------------------------------------------------------------ AgentBrain
\* A message is its role and its content; the prompt of the n-th call for an
\* agent is n and the provider's answer to it is n too.
UserMessage(n) == [role |-> "user", content |-> n]
AssistantMessage(n) == [role |-> "assistant", content |-> n]
\* the histories a caller supplies: messages of earlier exchanges
ExtraHistories == {[j \in 1..n |-> UserMessage(0)] : n \in 0..MaxExtra}

\* list[-n:] for n > 0
LastEntries(list, n) ==
    IF Len(list) > n THEN SubSeq(list, Len(list) - n + 1, Len(list)) ELSE list

\* (mutant) the history is cut at its head: full_history[:max_history_length]
PrepareConversationHistoryKeepsHead(store, a, additional) ==
    LET full_history == store[a] \o additional IN
    IF Len(full_history) > MaxHistoryLength
    THEN SubSeq(full_history, 1, MaxHistoryLength)
    ELSE full_history

\* _prepare_conversation_history(agent_id, additional_history)
PrepareConversationHistory(store, a, additional) ==
    LET full_history == store[a] \o additional IN
    IF Len(full_history) > MaxHistoryLength
    THEN LastEntries(full_history, MaxHistoryLength)
    ELSE full_history

\* (mutant) the history is cut at its head: list[:max_history_length]
UpdateConversationHistoryKeepsHead(store, a, n) ==
    LET extended == store[a] \o <<UserMessage(n), AssistantMessage(n)>> IN
    [store EXCEPT ![a] = IF Len(extended) > MaxHistoryLength
                         THEN SubSeq(extended, 1, MaxHistoryLength)
                         ELSE extended]

\* _update_conversation_history(agent_id, user_message, assistant_response)
UpdateConversationHistory(store, a, n) ==
    LET extended == store[a] \o <<UserMessage(n), AssistantMessage(n)>> IN
    [store EXCEPT ![a] = IF Len(extended) > MaxHistoryLength
                         THEN LastEntries(extended, MaxHistoryLength)
                         ELSE extended]

\* generate_completion up to the await of the provider: the history is prepared
\* from the store as it is now; the call takes the first free slot
GenerateCompletion(a, extra) ==
    /\ brainCalls < MaxBrainCalls
    /\ \E k \in CallSlots :
          /\ inflight[k] = NoCall
          /\ \A j \in 1..(k - 1) : inflight[j] # NoCall
          /\ inflight' = [inflight EXCEPT ![k] =
                  [agent |-> a, prompt |-> turns[a] + 1, additional |-> extra,
                   history |-> PrepareConversationHistory(conversation_store, a, extra)]]
    /\ brainCalls' = brainCalls + 1
    /\ turns' = [turns EXCEPT ![a] = @ + 1]
    /\ UNCHANGED <<conversation_store, brainFailures, brainClears, interpVars, wsVars, notLib>>

\* the provider answers: the exchange is appended to the store of the agent
CompletionDone(k) ==
    /\ inflight[k] # NoCall
    /\ conversation_store' =
          UpdateConversationHistory(conversation_store, inflight[k].agent, inflight[k].prompt)
    /\ inflight' = [inflight EXCEPT ![k] = NoCall]
    /\ UNCHANGED <<brainCalls, turns, brainFailures, brainClears, interpVars, wsVars, notLib>>

\* the provider fails: BrainError is raised, the store is not touched
CompletionFails(k) ==
    /\ inflight[k] # NoCall
    /\ brainFailures < MaxFailures
    /\ brainFailures' = brainFailures + 1
    /\ inflight' = [inflight EXCEPT ![k] = NoCall]
    /\ UNCHANGED <<conversation_store, brainCalls, turns, brainClears, interpVars, wsVars, notLib>>

\* clear_conversation_history(agent_id)
ClearConversationHistory(a) ==
    /\ conversation_store[a] # <<>>
    /\ brainClears < MaxClears
    /\ brainClears' = brainClears + 1
    /\ conversation_store' = [conversation_store EXCEPT ![a] = <<>>]
    /\ UNCHANGED <<brainCalls, turns, inflight, brainFailures, interpVars, wsVars, notLib>>

NextBrain ==
    \/ \E a \in AgentIds, extra \in ExtraHistories : GenerateCompletion(a, extra)
    \/ \E k \in CallSlots : CompletionDone(k)
    \/ \E k \in CallSlots : CompletionFails(k)
    \/ \E a \in AgentIds : ClearConversationHistory(a)
\* The AgentBrain after n exchanges made one after the other for an agent,
\* none failed: the stored history holds the n exchanges in order (n is at
\* most the number of exchanges the store keeps).
HistoryOf(n) ==
    [i \in 1..(2 * n) |-> IF i % 2 = 1 THEN UserMessage((i + 1) \div 2)
                                        ELSE AssistantMessage(i \div 2)]
\* no exchange yet, one exchange below a full history, a full history
EarlierExchanges ==
    {0, (MaxHistoryLength \div 2) - 1, MaxHistoryLength \div 2}
InitBrainAfter ==
    /\ turns \in [AgentIds -> EarlierExchanges]
    /\ conversation_store = [a \in AgentIds |-> HistoryOf(turns[a])]
    /\ brainCalls = 0
    /\ inflight = [k \in CallSlots |-> NoCall]
    /\ brainFailures = 0 /\ brainClears = 0
InitBrainSpec == InitIdle /\ InitInterpIdle /\ InitWs /\ InitBrainAfter /\ InitSvcIdle
SpecBrain == InitBrainSpec /\ [][NextBrain]_vars

\* ------------------------------------- AgentBrain: providers of one call
Personas ==
    {NoPersona} \cup [preferred_provider : Providers, preferred_model : {"gpt-4o", "llama2"}]
Requests == [provider : {"none"} \cup Providers, persona : Personas,
             model : {"none", "custom"}]
Other(p) == IF p = "openai" THEN "maclink" ELSE "openai"
Available(p) == IF p = "openai" THEN openai_client ELSE maclink_client
DefaultModel(p) == IF p = "openai" THEN "gpt-4o" ELSE "llama2"

\* _select_provider_and_model(request): the provider and the model, or raises
SelectProviderAndModel(req, openai, maclink) ==
    LET provider == IF req.provider # "none" THEN req.provider
                    ELSE IF req.persona # NoPersona THEN req.persona.preferred_provider
                    ELSE IF openai THEN "openai" ELSE "maclink"
        model == IF req.model # "none" THEN req.model
                 ELSE IF req.persona # NoPersona THEN req.persona.preferred_model
                 ELSE DefaultModel(provider)
        first == IF provider = "openai" /\ ~openai
                 THEN IF maclink THEN "maclink" ELSE "raise"
                 ELSE provider
        second == IF first = "maclink" /\ ~maclink
                  THEN IF openai THEN "openai" ELSE "raise"
                  ELSE first
    IN [raises |-> second = "raise",
        provider |-> IF second = "raise" THEN "none" ELSE second,
        model |-> IF second = "raise" THEN "none" ELSE model]

\* generate_completion from its start to the await of the provider's client;
\* _generate_openai_completion / _generate_maclink_completion raise before
\* any request when their client is not set
SelectAndCall ==
    /\ gpc = "ready"
    /\ LET r == SelectProviderAndModel(request, openai_client, maclink_client) IN
          IF r.raises
          THEN /\ gpc' = "raised" /\ raisedBy' = "none"
               /\ UNCHANGED <<chosen, requests>>
          ELSE /\ chosen' = [provider |-> r.provider, model |-> r.model]
               /\ IF Available(r.provider)
                  THEN /\ requests' = [requests EXCEPT ![r.provider] = @ + 1]
                       /\ gpc' = "awaiting" /\ UNCHANGED raisedBy
                  ELSE /\ gpc' = "raised" /\ raisedBy' = r.provider
                       /\ UNCHANGED requests
    /\ UNCHANGED <<openai_client, maclink_client, request, notSel>>

\* the client returns the completion: the BrainResponse is returned
ProviderAnswers ==
    /\ gpc = "awaiting"
    /\ gpc' = "returned"
    /\ UNCHANGED <<openai_client, maclink_client, request, chosen, requests, raisedBy, notSel>>

\* (mutant) after the failure the other provider, when set, is asked
ProviderFailsFallsBack ==
    /\ gpc = "awaiting"
    /\ IF Available(Other(chosen.provider)) /\ requests[Other(chosen.provider)] = 0
       THEN /\ requests' = [requests EXCEPT ![Other(chosen.provider)] = @ + 1]
            /\ chosen' = [chosen EXCEPT !.provider = Other(chosen.provider)]
            /\ UNCHANGED <<gpc, raisedBy>>
       ELSE /\ gpc' = "raised" /\ raisedBy' = chosen.provider
            /\ UNCHANGED <<chosen, requests>>
    /\ UNCHANGED <<openai_client, maclink_client, request, notSel>>

\* the client raises (OpenAIError, MacLinkError or any Exception): BrainError
\* with the provider of the call
ProviderFails ==
    /\ gpc = "awaiting"
    /\ gpc' = "raised" /\ raisedBy' = chosen.provider
    /\ UNCHANGED <<openai_client, maclink_client, request, chosen, requests, notSel>>

InitSelect ==
    /\ openai_client \in BOOLEAN /\ maclink_client \in BOOLEAN
    /\ request \in Requests /\ gpc = "ready" /\ chosen = NoChoice
    /\ requests = [p \in Providers |-> 0] /\ raisedBy = "none"
NextSelect == SelectAndCall \/ ProviderAnswers \/ ProviderFails
InitSelectSpec == InitNotSvc /\ InitSelect /\ InitAuditIdle /\ InitAgentsIdle /\ InitEnt /\ InitDisc /\ InitStart
SpecSelect == InitSelectSpec /\ [][NextSelect]_vars

\* ----------------------------------------------- AuditService.log_event
\* meta is a dict from string keys to strings, integers, lists and dicts
SensitiveFields == {"password", "token", "secret", "api_key"}
AuditKeys == {"password", "Token", "API_KEY", "name"}
\* str.lower() on the keys used
Lower(k) == CASE k = "Token" -> "token" [] k = "API_KEY" -> "api_key" [] OTHER -> k
REDACTED == StrV(<<"[", "R", "E", "D", "A", "C", "T", "E", "D", "]">>)

\* key.lower() in self.sensitive_fields
SensitiveKey(k) == Lower(k) \in SensitiveFields

\* _sanitize_data(data)
RECURSIVE SanitizeData(_)
SanitizeData(data) ==
    IF data.entries = <<>> THEN data
    ELSE DictV([e \in DOMAIN data.entries |->
            LET key == data.entries[e].key
                value == data.entries[e].value
            IN [key |-> key,
                value |->
                  IF SensitiveKey(key) THEN REDACTED
                  ELSE IF value.kind = "dict" THEN SanitizeData(value)
                  ELSE IF value.kind = "list"
                       THEN ListV([i \in DOMAIN value.items |->
                                IF value.items[i].kind = "dict"
                                THEN SanitizeData(value.items[i])
                                ELSE value.items[i]])
                  ELSE value]])

\* the values of a meta, by nesting depth
MetaLeaves == {StrV(<<"x">>), IntV(1)}
RECURSIVE MetaValues(_)
MetaValues(n) ==
    IF n = 0 THEN MetaLeaves
    ELSE LET below == MetaValues(n - 1) IN
         below
         \cup {DictV(<<[key |-> k, value |-> v]>>) : k \in AuditKeys, v \in below}
         \cup {ListV(<<v>>) : v \in below}
Metas ==
    {DictV(<<>>)}
    \cup {DictV(<<[key |-> k, value |-> v]>>) :
            k \in AuditKeys, v \in MetaValues(MaxMetaDepth - 1)}
    \cup {DictV(<<[key |-> "name", value |-> v], [key |-> k, value |-> REDACTED]>>) :
            k \in AuditKeys, v \in MetaValues(1)}

\* log_event: the sanitized meta is stored with the record
LogEvent ==
    /\ apc = "ready"
    /\ astored' = IF ameta.entries # <<>> THEN SanitizeData(ameta) ELSE DictV(<<>>)
    /\ apc' = "logged"
    /\ UNCHANGED <<ameta, aagain, notAudit>>
\* _sanitize_data applied to a stored meta
SanitizeStored ==
    /\ apc = "logged"
    /\ aagain' = SanitizeData(astored)
    /\ apc' = "again"
    /\ UNCHANGED <<ameta, astored, notAudit>>
InitAudit ==
    /\ ameta \in Metas /\ astored = <<>> /\ aagain = <<>> /\ apc = "ready"
NextAudit == LogEvent \/ SanitizeStored
InitAuditSpec == InitNotSvc /\ InitSelIdle /\ InitAudit /\ InitAgentsIdle /\ InitEnt /\ InitDisc /\ InitStart
SpecAudit == InitAuditSpec /\ [][NextAudit]_vars

\* --------------------------------- AIAgentManager.send_message_to_agent
\* _update_agent_status(agent_id, status) of an active agent: the status is
\* set; with a WebSocketManager, ws_manager.broadcast is looked up, which the
\* WebSocketManager does not have: AttributeError, before any await
UpdateAgentStatus(st, a, new) == [st EXCEPT ![a] = new]
UpdateRaises == wsManagerSet

\* send_message_to_agent from its start to the await of generate_completion:
\* the status becomes thinking; when _update_agent_status raises, the handler
\* sets the status to error (and raises from there)
SendMessageToAgent(a) ==
    /\ sendPc[a] \in {"none", "returned", "raised"}
    /\ sends < MaxSends
    /\ sends' = sends + 1
    /\ IF UpdateRaises
       THEN /\ agentStatus' = UpdateAgentStatus(
                    UpdateAgentStatus(agentStatus, a, "thinking"), a, "error")
            /\ sendPc' = [sendPc EXCEPT ![a] = "raised"]
       ELSE /\ agentStatus' = UpdateAgentStatus(agentStatus, a, "thinking")
            /\ sendPc' = [sendPc EXCEPT ![a] = "brain"]
    /\ UNCHANGED <<wsManagerSet, notAgent>>

\* generate_completion returns: the status becomes idle, log_agent_event is awaited
BrainReturns(a) ==
    /\ sendPc[a] = "brain"
    /\ agentStatus' = UpdateAgentStatus(agentStatus, a, "idle")
    /\ sendPc' = [sendPc EXCEPT ![a] = "audit"]
    /\ UNCHANGED <<wsManagerSet, sends, notAgent>>

\* generate_completion raises (BrainError): the handler sets the status to error
BrainRaises(a) ==
    /\ sendPc[a] = "brain"
    /\ agentStatus' = UpdateAgentStatus(agentStatus, a, "error")
    /\ sendPc' = [sendPc EXCEPT ![a] = "raised"]
    /\ UNCHANGED <<wsManagerSet, sends, notAgent>>

\* log_agent_event returns (it raises nothing); without WebSocketManager
\* nothing is broadcast and the response is returned
SendAuditDone(a) ==
    /\ sendPc[a] = "audit"
    /\ sendPc' = [sendPc EXCEPT ![a] = "returned"]
    /\ UNCHANGED <<agentStatus, wsManagerSet, sends, notAgent>>

InitAgentSpec == InitNotSvc /\ InitSelIdle /\ InitAuditIdle /\ InitEnt /\ InitAgents /\ InitDisc /\ InitStart
                 /\ wsManagerSet \in BOOLEAN
NextAgent ==
    \/ \E a \in AgentIds : SendMessageToAgent(a)
    \/ \E a \in AgentIds : BrainReturns(a)
    \/ \E a \in AgentIds : BrainRaises(a)
    \/ \E a \in AgentIds : SendAuditDone(a)
SpecAgent == InitAgentSpec /\ [][NextAgent]_vars

\* -------------------------------------------------- EntanglementManager
\* the orders in which a set can be iterated
RECURSIVE Orderings(_)
Orderings(S) ==
    IF S = {} THEN {<<>>}
    ELSE UNION {{<<x>> \o o : o \in Orderings(S \ {x})} : x \in S}

\* _find_entanglement_for_agents(a, b): both are agents of the entanglement
FindEntanglementForAgents(ms, a, b) == a \in ms /\ b \in ms

\* add_agent_to_entanglement / remove_agent_from_entanglement; not while
\* broadcast_message iterates the set
AddAgentToEntanglement(a) ==
    /\ epc # "sending" /\ entOps < MaxEntOps /\ a \notin members
    /\ members' = members \cup {a} /\ entOps' = entOps + 1
    /\ UNCHANGED <<message_queue, epc, ecaller, esender, etodo, eagents, eidx, invoked,
                   eresults, esent, entCalls, notEnt>>
RemoveAgentFromEntanglement(a) ==
    /\ epc # "sending" /\ entOps < MaxEntOps /\ a \in members
    /\ members' = members \ {a} /\ entOps' = entOps + 1
    /\ UNCHANGED <<message_queue, epc, ecaller, esender, etodo, eagents, eidx, invoked,
                   eresults, esent, entCalls, notEnt>>

\* the receivers broadcast_message has still to send to: not the sender
Receivers(todo, sender) == SelectSeq(todo, LAMBDA r : r # sender)

\* broadcast_message with the members todo left and sent messages appended:
\* send_message to the next receiver raises ValueError when sender and
\* receiver share no entanglement, else it appends the message and awaits the
\* event broadcast.  After the last receiver broadcast_message returns; in
\* coordinate_agents, execute_agent_task of the first agent is then awaited.
NoneInvoked == [a \in EntAgentIds |-> 0]
BroadcastFrom(todo, sender, caller, agents, sent) ==
    LET rest == Receivers(todo, sender) IN
    IF rest = <<>>
    THEN /\ etodo' = <<>> /\ esent' = sent
         /\ UNCHANGED message_queue
         /\ IF caller = "coordinate"
            THEN /\ invoked' = [NoneInvoked EXCEPT ![agents[1]] = 1]
                 /\ eidx' = 1 /\ epc' = "executing"
            ELSE /\ epc' = "returned" /\ eidx' = 0 /\ invoked' = NoneInvoked
    ELSE IF FindEntanglementForAgents(members, sender, Head(rest))
    THEN /\ message_queue' = Append(message_queue, <<sender, Head(rest)>>)
         /\ esent' = sent + 1
         /\ etodo' = Tail(rest) /\ epc' = "sending"
         /\ eidx' = 0 /\ invoked' = NoneInvoked
    ELSE /\ epc' = "raised" /\ esent' = sent /\ etodo' = rest
         /\ eidx' = 0 /\ invoked' = NoneInvoked
         /\ UNCHANGED message_queue

EntIdle == epc \in {"none", "returned", "raised"}

\* broadcast_message(sender_id, eid, ...) called by a client, to its first await
BroadcastMessage(sender) ==
    /\ EntIdle /\ entCalls < MaxEntCalls
    /\ entCalls' = entCalls + 1
    /\ ecaller' = "broadcast" /\ esender' = sender
    /\ eagents' = <<>> /\ eresults' = {}
    /\ \E order \in Orderings(members) : BroadcastFrom(order, sender, "broadcast", <<>>, 0)
    /\ UNCHANGED <<members, entOps, notEnt>>

\* coordinate_agents(eid, task, context), to its first await
CoordinateAgents ==
    /\ EntIdle /\ entCalls < MaxEntCalls
    /\ entCalls' = entCalls + 1
    /\ ecaller' = "coordinate" /\ esender' = SystemSender
    /\ eresults' = {}
    /\ \E agents \in Orderings(members) :
          /\ eagents' = agents
          /\ IF Len(agents) < 2
             THEN /\ epc' = "raised" /\ esent' = 0 /\ etodo' = <<>>
                  /\ eidx' = 0 /\ invoked' = NoneInvoked
                  /\ UNCHANGED message_queue
             ELSE \E order \in Orderings(members) :
                      BroadcastFrom(order, SystemSender, "coordinate", agents, 0)
    /\ UNCHANGED <<members, entOps, notEnt>>

\* the event broadcast of send_message returns: the next receiver
EntSendDone ==
    /\ epc = "sending"
    /\ BroadcastFrom(etodo, esender, ecaller, eagents, esent)
    /\ UNCHANGED <<members, ecaller, esender, eagents, eresults, entCalls, entOps, notEnt>>

\* execute_agent_task returns or raises: results gets the entry of the agent;
\* the next agent is invoked, or the call returns after the last one
ExecuteAgentTaskDone ==
    /\ epc = "executing"
    /\ eresults' = eresults \cup {eagents[eidx]}
    /\ IF eidx < Len(eagents)
       THEN /\ invoked' = [invoked EXCEPT ![eagents[eidx + 1]] = @ + 1]
            /\ eidx' = eidx + 1 /\ UNCHANGED epc
       ELSE /\ epc' = "returned" /\ UNCHANGED <<invoked, eidx>>
    /\ UNCHANGED <<members, message_queue, ecaller, esender, etodo, eagents, esent,
                   entCalls, entOps, notEnt>>

NextEnt ==
    \/ \E a \in EntAgentIds : AddAgentToEntanglement(a)
    \/ \E a \in EntAgentIds : RemoveAgentFromEntanglement(a)
    \/ \E a \in EntAgentIds : BroadcastMessage(a)
    \/ CoordinateAgents
    \/ EntSendDone
    \/ ExecuteAgentTaskDone
InitEntSpec == InitNotSvc /\ InitSelIdle /\ InitAuditIdle /\ InitAgentsIdle /\ InitEnt /\ InitDisc /\ InitStart
SpecEnt == InitEntSpec /\ [][NextEnt]_vars

\* ------------------------------------------------ execute_workflow's caller
\* After it has stored the context and spawned the driver, execute_workflow
\* awaits the audit service and then the start broadcast; an exception of either
\* is logged and raised to the caller (lines 143-177).
notStart == <<notSvc, selVars, auditVars, agentVars, entVars, discVars>>

\* audit_service.log_event returns or raises
ExecuteAuditDone(ok) ==
    /\ pc # "none" /\ callPc = "audit"
    /\ callPc' = IF ok THEN "start_bcast" ELSE "raised"
    /\ UNCHANGED notStart

\* websocket_manager.broadcast_to_user returns or raises
ExecuteStartBcastDone(ok) ==
    /\ callPc = "start_bcast"
    /\ callPc' = IF ok THEN "returned" ELSE "raised"
    /\ UNCHANGED notStart

\* SpecStart: workflows of leaf steps; the driver runs while execute_workflow
\* is at its awaits
NextStart ==
    \/ DriverNext
    \/ LeafStepNext
    \/ \E ok \in BOOLEAN : ExecuteAuditDone(ok)
    \/ \E ok \in BOOLEAN : ExecuteStartBcastDone(ok)
SpecStart == InitCtlSpec /\ [][NextStart]_vars

\* ------------------------------------------- WebSocketManager.disconnect
\* disconnect seen with its suspension point: the call looks the id up, takes it
\* out of its window bucket and awaits websocket.close(); when it resumes it
\* deletes the key.  Its callers (the endpoint, a failed send, the idle sweep)
\* hold an id that was registered when they picked it.
DisconnectOf(c) == {k \in DisconnectCalls : dcall[k].conn = c}
NoDisconnectYet == \A k \in DisconnectCalls : dcall[k].pc = "none"

\* disconnect(connection_id) up to `await connection.websocket.close()`
DisconnectBegin(k, c) ==
    /\ dcall[k].pc = "none"
    /\ active_connections[c] # NoConn \/ DisconnectOf(c) # {}
    /\ IF active_connections[c] # NoConn
       THEN /\ window_connections' =
                   [window_connections EXCEPT ![WindowOf(c)] = ListRemove(@, c)]
            /\ closed' = closed \cup {active_connections[c].ws}
            /\ dcall' = [dcall EXCEPT ![k] = [conn |-> c, pc |-> "closing"]]
       ELSE /\ dcall' = [dcall EXCEPT ![k] = [conn |-> c, pc |-> "done"]]
            /\ UNCHANGED <<window_connections, closed>>
    /\ UNCHANGED <<active_connections, notDisc>>

\* close() returned or raised (the exception is logged): del
\* self.active_connections[connection_id], a KeyError when the key has gone
DisconnectEnd(k) ==
    /\ dcall[k].pc = "closing"
    /\ IF active_connections[dcall[k].conn] # NoConn
       THEN /\ active_connections' = [active_connections EXCEPT ![dcall[k].conn] = NoConn]
            /\ dcall' = [dcall EXCEPT ![k].pc = "done"]
       ELSE /\ dcall' = [dcall EXCEPT ![k].pc = "raised"]
            /\ UNCHANGED active_connections
    /\ UNCHANGED <<window_connections, closed, notDisc>>

\* SpecDisconnect: connections are made at different clock readings; then
\* disconnect calls are made and may overlap
ConnectFirst(w) ==
    /\ NoDisconnectYet
    /\ active_connections[ConnectionId(w, now)] = NoConn
    /\ WsConnect(w, TRUE)
TickFirst == NoDisconnectYet /\ Tick
NextDisconnect ==
    \/ \E w \in WsWindowTypes : ConnectFirst(w)
    \/ TickFirst
    \/ \E k \in DisconnectCalls, c \in ConnIds : DisconnectBegin(k, c)
    \/ \E k \in DisconnectCalls : DisconnectEnd(k)
SpecDisconnect == InitWsSpec /\ [][NextDisconnect]_vars

\* =================================================================== claims
\* C1: in a visual workflow execution no node starts running until every node
\* that has an edge into it has been marked executed: a node whose status has
\* left pending has all the sources of its incoming edges executed, in every
\* interleaving of the node tasks of a wave.
C1_NoNodeBeforePredecessors ==
    \A v \in DOMAIN graph :
        graph[v].status # "pending" =>
            \A e \in vedges : e[2] = v => graph[e[1]].executed
\* a node with two incoming edges is running
C1_Witness ==
    \E v \in DOMAIN graph :
        /\ graph[v].status = "running"
        /\ Cardinality({e \in vedges : e[2] = v}) >= 2

\* a leaf step whose handler was invoked and raised
HandlerFailed(i) == Steps[i].kind = "task" /\ Steps[i].fails /\ handlerCalls[i] > 0

\* C2: in a sequential workflow, when a step's handler fails and the step has no
\* on_failure policy (default fail) or has exhausted its retries, the terminal
\* status of the execution is failed; it is completed only if the policy of every
\* failed step is continue (or no step failed).
C2_FailedStepFailsExecution ==
    (pc = "done" /\ wf.type = "sequential") =>
        /\ (\E i \in StepIds : HandlerFailed(i) /\ Steps[i].onf.action # "continue")
               => status = "failed"
        /\ status = "completed"
               => \A i \in StepIds : HandlerFailed(i) => Steps[i].onf.action = "continue"

\* C3: a step whose handler always fails and whose policy is retry with
\* max_retries N has its handler invoked exactly N + 1 times; afterwards its
\* retry_count is N, the step is failed and the execution is failed.
C3_RetryCountsAttempts ==
    (pc = "done" /\ wf.type = "sequential") =>
        \A i \in StepIds :
            (HandlerFailed(i) /\ Steps[i].onf.action = "retry") =>
                /\ handlerCalls[i] = Steps[i].onf.max_retries + 1
                /\ step_contexts[i].retry_count = Steps[i].onf.max_retries
                /\ step_contexts[i].status = "failed"
                /\ status = "failed"

\* C4: in every reachable state every StepContext has retry_count <= max_retries
\* (its own field), whatever on_failure.max_retries the step definition carries.
C4_RetryCountBounded ==
    \A i \in StepIds : step_contexts[i].retry_count <= step_contexts[i].max_retries
\* the execution is over and a step whose policy allows more retries than
\* StepContext.max_retries has failed
C4_Witness ==
    /\ pc = "done"
    /\ \E i \in StepIds :
          /\ HandlerFailed(i)
          /\ Steps[i].onf.action = "retry"
          /\ Steps[i].onf.max_retries > step_contexts[i].max_retries
          /\ step_contexts[i].status = "failed"

\* C5: once the status of a step is completed it never changes again, under every
\* workflow type, steps executed as nested steps of loop / parallel steps included.
C5_CompletedIsSticky ==
    [][\A i \in StepIds :
          step_contexts[i].status = "completed" => step_contexts'[i].status = "completed"]_vars

\* C6: the status of an execution only moves pending -> running -> {completed,
\* failed, cancelled}, with paused entered only from running and left only to
\* running or a terminal status; in particular, once the status is completed,
\* failed or cancelled, no step of the driver and no cancel / pause / resume
\* call changes it.
C6_TerminalStatusIsSticky ==
    [][(status \in TerminalStatus) => (status' = status)]_vars

\* C7: while the status of the execution is paused the driver starts no new
\* step: no step moves from pending to running.
C7_NoStepStartsWhilePaused ==
    [][status = "paused" =>
          \A i \in StepIds :
              ~(step_contexts[i].status = "pending" /\ step_contexts'[i].status = "running")]_vars

\* C8: after cancel_execution has returned true no step moves to running, no
\* step-started update is broadcast, and the final status of the execution is
\* cancelled.
C8_NothingStartsAfterCancel ==
    [][cancelCalls > 0 =>
          /\ \A i \in StepIds :
                step_contexts'[i].status = "running" => step_contexts[i].status = "running"
          /\ startBcasts' = startBcasts
          /\ pc' = "done" => status' = "cancelled"]_vars

\* C9: in the final state of a cancelled execution no step is pending or running:
\* the step in flight when the cancel arrived is cancelled and the steps that
\* never started are skipped.
C9_NoStepLeftOpen ==
    (pc = "done" /\ status = "cancelled" /\ lastCtl = "cancel") =>
        \A i \in StepIds :
            /\ step_contexts[i].status \notin {"pending", "running"}
            /\ snap[i] = "running" => step_contexts[i].status = "cancelled"
            /\ snap[i] = "pending" => step_contexts[i].status = "skipped"

C11_ResumeRejected ==
    [][(calls' = calls + 1 /\ lastCall'.op = "resume" /\ (~registered \/ status # "paused")) =>
          /\ lastCall'.ret = FALSE
          /\ UNCHANGED <<status, step_contexts, run, completed_steps, failed_steps>>
          /\ UNCHANGED <<ctlBcasts, auditEvents, startBcasts>>]_vars
\* a resume call was rejected on a registered execution that is running
C11_Witness ==
    /\ lastCall = [op |-> "resume", ret |-> FALSE]
    /\ registered /\ status = "running" /\ pc # "done"
    /\ ctlBcasts = 0 /\ auditEvents = 0

\* C12: if the deadline of an execution expires while the execution is still
\* running, the driver stops the work in flight and the execution ends with
\* status failed.
C12_DeadlineFailsExecution ==
    (pc = "done" /\ deadlinePassed) => status = "failed"

\* C13: create_visual_workflow raises, and persists no workflow, for every node /
\* edge list whose edges contain a directed cycle (self-loops included), and
\* _has_cycles returns true exactly when the edge graph has a cycle.
C13_CyclesRejected ==
    cpc # "none" =>
        /\ ~IsAcyclic(EdgeSet(cedges)) => (cpc = "raised" /\ persisted = 0)
        /\ HasCycles(cnodes, cedges) <=> ~IsAcyclic(EdgeSet(cedges))

\* C14: for every acyclic visual workflow the wave scheduler terminates with the
\* graph drained: no node is run twice, and when the execution is marked
\* completed every node has been run exactly once and is marked executed; the
\* execution does reach completed.
C14_GraphDrained ==
    /\ [](\A v \in Nodes : vruns[v] <= 1)
    /\ [](vstatus = "completed" =>
             \A v \in Nodes : vruns[v] = 1 /\ graph[v].executed /\ vphase[v] = "done")
    /\ <>(vpc = "done" /\ vstatus = "completed")
\* a workflow of MaxNodes nodes in a chain has completed, after one wave per node
C14_Witness ==
    /\ vpc = "done" /\ vstatus = "completed"
    /\ vnodes = MaxNodes
    /\ \A v \in 1..(vnodes - 1) : <<v, v + 1>> \in vedges

\* the step has been run to its end, or was skipped
StepLeft(i) == step_contexts[i].status \in {"completed", "failed", "skipped"}

RunningSteps == {i \in StepIds : step_contexts[i].status = "running"}

NestedInFlight(i) ==
    {j \in DOMAIN run[i].nph : run[i].nph[j] \in {"start_bcast", "handler", "end_ok", "end_exc"}}

\* C17: the parallel step handler runs its nested steps with bounded
\* concurrency: at no moment are more than max_parallel_steps of its nested steps
\* running.
C17_NestedParallelCap ==
    \A i \in StepIds :
        Steps[i].kind = "parallel" =>
            /\ Cardinality(NestedInFlight(i)) <= MaxParallelSteps
            /\ run[i].phase = "handler" =>
                  Cardinality({k \in RunningSteps : k # i}) <= MaxParallelSteps

\* the outcome of _execute_sequential_steps on a list of leaf steps, step by step
\* (lines 231-253): a step is skipped, or run and appended to completed_steps, or
\* marked failed and appended to failed_steps by _handle_step_error
SeqStatuses(steps) ==
    [i \in DOMAIN steps |-> IF steps[i].skip THEN "skipped"
                            ELSE IF steps[i].fails THEN "failed" ELSE "completed"]
RECURSIVE IdsWith(_, _, _)
IdsWith(sts, s, i) ==
    IF i > Len(sts) THEN <<>>
    ELSE (IF sts[i] = s THEN <<i>> ELSE <<>>) \o IdsWith(sts, s, i + 1)

\* C18: a parallel workflow run with max_parallel_steps = 1 ends as the same
\* steps run as a sequential workflow: same final step statuses (skipped steps
\* included), same completed_steps and failed_steps, same execution status.
C18_CapOneIsSequential ==
    (pc = "done" /\ wf.type \in {"sequential", "parallel"}) =>
        /\ StepStatuses = SeqStatuses(Steps)
        /\ completed_steps = IdsWith(SeqStatuses(Steps), "completed", 1)
        /\ failed_steps = IdsWith(SeqStatuses(Steps), "failed", 1)
        /\ status = "completed"

\* the ids that occur in a list of step ids
Members(list) == {list[k] : k \in DOMAIN list}
SkippedSteps == {i \in StepIds : step_contexts[i].status = "skipped"}

\* C19: at terminal status of an execution completed_steps and failed_steps hold
\* only step ids of the workflow, and the completed, failed and skipped step sets
\* are pairwise disjoint.
C19_StepSetsDisjoint ==
    (pc = "done" /\ status \in TerminalStatus) =>
        /\ Members(completed_steps) \cup Members(failed_steps) \subseteq StepIds
        /\ Members(completed_steps) \cap Members(failed_steps) = {}
        /\ Members(completed_steps) \cap SkippedSteps = {}
        /\ Members(failed_steps) \cap SkippedSteps = {}
\* a sequential execution has ended with one step completed and one step failed
C19_Witness ==
    /\ pc = "done" /\ status \in TerminalStatus
    /\ Len(completed_steps) = 1 /\ Len(failed_steps) = 1

\* C20: when the handler of a step of a flat workflow returns, the results map of
\* the execution holds the returned value under the step's id, and the step's
\* output_variable, if it defines one, holds that value in the variables; a step
\* that fails writes neither.
C20_ResultsRecorded ==
    [][\A i \in StepIds :
          /\ (step_contexts[i].status # "completed" /\ step_contexts'[i].status = "completed") =>
                /\ results'[i] = Ret(i)
                /\ outvar[i] # 0 => variables'[outvar[i]] = Ret(i)
          /\ (step_contexts[i].status # "failed" /\ step_contexts'[i].status = "failed") =>
                /\ results'[i] = results[i]
                /\ variables' = variables]_vars

\* C21: the nested steps of the i-th iteration of a loop step run in a scope that
\* binds loop_item to items[i] and loop_index to i, and once the loop has returned
\* the variables of the execution bind neither name and hold no value that is
\* not the output_variable of a step.
C21_LoopChildScope ==
    \A i \in StepIds : Steps[i].kind = "loop" =>
        /\ \A j \in DOMAIN Steps[i].nested : run[i].nph[j] = "handler" =>
              /\ HandlerScope(i, j)[LoopItem] = Item(run[i].it)
              /\ HandlerScope(i, j)[LoopIndex] = (run[i].it - 1) + 1
        /\ (run[i].phase \in {"end_bcast", "returned"} /\ run[i].ok) =>
              /\ variables[LoopItem] = 0 /\ variables[LoopIndex] = 0
              /\ \A x \in VarNames : variables[x] # 0 => \E k \in StepIds : outvar[k] = x

\* a string without "$", "{" and "}"
Plain(s) == \A j \in DOMAIN s : s[j] \notin {"$", "{", "}"}
\* the name is a key of the variables; the string form of its value, or the
\* empty string for a name that is no key
Bound(k) == \E e \in DOMAIN ivars : ivars[e].key = k
StringForm(k) ==
    IF Bound(k) THEN Str(ivars[CHOOSE e \in DOMAIN ivars : ivars[e].key = k].value) ELSE <<>>
\* the interpolation of pre ${k} post, for plain pre and post, is pre, the string
\* form of k and post
ReplacedIn(t, r) ==
    \A k \in Keys : \A i \in DOMAIN t.s :
        LET pre == SubSeq(t.s, 1, i - 1)
            post == SubSeq(t.s, i + Len(Placeholder(k)), Len(t.s))
        IN  (StartsWith(t.s, i, Placeholder(k)) /\ Plain(pre) /\ Plain(post)) =>
              r = StrV(pre \o StringForm(k) \o post)

\* C22: interpolation replaces each ${NAME} of a string template by the string
\* form of the value bound to NAME, and by the empty string when NAME is not
\* bound; the items of a list and the values of a dict are interpolated in the
\* same way, and any other value is returned unchanged.
C22_InterpolateReplaces ==
    ipc \in {"once", "twice"} =>
        CASE tmpl.kind = "str" -> ReplacedIn(tmpl, once)
          [] tmpl.kind = "list" ->
                /\ once.kind = "list" /\ Len(once.items) = Len(tmpl.items)
                /\ \A e \in DOMAIN tmpl.items :
                      /\ tmpl.items[e].kind = "str" => ReplacedIn(tmpl.items[e], once.items[e])
                      /\ tmpl.items[e].kind = "int" => once.items[e] = tmpl.items[e]
          [] tmpl.kind = "dict" ->
                /\ once.kind = "dict" /\ Len(once.entries) = Len(tmpl.entries)
                /\ \A e \in DOMAIN tmpl.entries :
                      /\ once.entries[e].key = tmpl.entries[e].key
                      /\ tmpl.entries[e].value.kind = "str" =>
                            ReplacedIn(tmpl.entries[e].value, once.entries[e].value)
                      /\ tmpl.entries[e].value.kind = "int" =>
                            once.entries[e].value = tmpl.entries[e].value
          [] OTHER -> once = tmpl

\* no value of the variables has a string form with a "$"
ValuesArePlain == \A e \in DOMAIN ivars : \A j \in DOMAIN Str(ivars[e].value) :
                      Str(ivars[e].value)[j] # "$"

\* C23: when no value of the scope contains a ${...}, interpolating the result of
\* an interpolation again, with the same scope, gives that result again, for every
\* template and every order of the keys of the scope.
C23_InterpolateIdempotent ==
    (ipc = "twice" /\ ValuesArePlain) => twice = once

\* C24: when a send fails during broadcast_to_window or broadcast_to_all, the
\* connection it failed for is disconnected, and every other connection that was
\* registered for the broadcast at its start has received the message exactly
\* once when the broadcast ends.
C24_BroadcastReachesOthers ==
    bpc = "done" =>
        \A c \in bstart :
            /\ c \in bfailed => active_connections[c] = NoConn
            /\ c \notin bfailed =>
                  /\ active_connections[c] # NoConn
                  /\ delivered[active_connections[c].ws] = 1

\* C26: the connection_id that connect gives a new connection is the id of no
\* connection registered at that moment, so that a registered connection is never
\* replaced in the registry by a later connect: an id that stays registered over
\* a step keeps its websocket.
C26_ConnectionIdsUnique ==
    [][\A c \in ConnIds :
          (active_connections[c] # NoConn /\ active_connections'[c] # NoConn) =>
              active_connections'[c].ws = active_connections[c].ws]_vars

\* C27: a connection whose last_activity is older than the idle threshold is
\* disconnected and deregistered within one sweep interval, so no registered
\* connection is idle for longer than the threshold plus one interval; and a
\* sweep disconnects no connection whose last_activity is within the threshold.
C27_IdleConnectionsReaped ==
    /\ \A c \in Registered(active_connections) :
          now - active_connections[c].last_activity <= IdleTimeout + SweepInterval
    /\ \A r \in swept : r.idle > IdleTimeout

\* C25: a broadcast of a status update that fails does not reach the operation
\* that made it: as when every broadcast succeeds, only a step whose handler
\* raises ends with the status failed, and only an execution with such a step
\* ends with the status failed.
C25_BroadcastFailureContained ==
    /\ \A i \in StepIds : step_contexts[i].status = "failed" => Steps[i].fails
    /\ (pc = "done" /\ status = "failed") => \E i \in StepIds : Steps[i].fails

\* h holds the most recent entries of full, at most MaxHistoryLength of them,
\* in their order
MostRecentOf(h, full) ==
    /\ Len(h) = IF Len(full) > MaxHistoryLength THEN MaxHistoryLength ELSE Len(full)
    /\ \A i \in 1..Len(h) : h[i] = full[Len(full) - Len(h) + i]
HistoriesBounded ==
    /\ \A a \in AgentIds : Len(conversation_store[a]) <= MaxHistoryLength
    /\ \A k \in CallSlots : Len(inflight[k].history) <= MaxHistoryLength
HandedIsMostRecent ==
    \A k \in CallSlots :
        (inflight[k] = NoCall /\ inflight'[k] # NoCall) =>
            MostRecentOf(inflight'[k].history,
                         conversation_store[inflight'[k].agent] \o inflight'[k].additional)
\* C28: whatever generate_completion and clear_conversation_history calls were
\* made, the stored history of every agent_id has at most 20 entries, and the
\* history handed to a provider has at most 20 entries: the most recent ones of
\* the stored history followed by the caller's, in their order.
C28_HistoryBounded == [] HistoriesBounded /\ [][HandedIsMostRecent]_vars
\* a call whose history was cut: the store was full and the caller added entries
C28_Witness ==
    \E k \in CallSlots :
        /\ inflight[k] # NoCall
        /\ inflight[k].additional # <<>>
        /\ Len(inflight[k].history) = MaxHistoryLength
        /\ Len(conversation_store[inflight[k].agent]) = MaxHistoryLength
        /\ inflight[k].history # conversation_store[inflight[k].agent]

\* the call in slot k returns with the provider's answer while the stored
\* history of its agent is full
CompletedAtCapacity(k) ==
    /\ inflight[k] # NoCall /\ inflight'[k] = NoCall
    /\ brainFailures' = brainFailures
    /\ Len(conversation_store[inflight[k].agent]) = MaxHistoryLength
\* C29: when the stored history of an agent is at capacity, a successful
\* completion drops exactly the oldest exchange and keeps all the other stored
\* entries in order, followed by the new exchange.
C29_OldestDropped ==
    [][\A k \in CallSlots :
          CompletedAtCapacity(k) =>
              conversation_store'[inflight[k].agent] =
                  SubSeq(conversation_store[inflight[k].agent], 3, MaxHistoryLength)
                  \o <<UserMessage(inflight[k].prompt),
                       AssistantMessage(inflight[k].prompt)>>]_vars
\* a full history that has lost its first exchange
C29_Witness ==
    \E a \in AgentIds :
        /\ Len(conversation_store[a]) = MaxHistoryLength
        /\ conversation_store[a][1] # UserMessage(1)
        /\ conversation_store[a][MaxHistoryLength].role = "assistant"

\* C30: for any agent_id at most one completion is in flight at any moment.
C30_OneCompletionPerAgent ==
    \A j, k \in CallSlots :
        (j # k /\ inflight[j] # NoCall /\ inflight[k] # NoCall) =>
            inflight[j].agent # inflight[k].agent

\* the provider the request asks for, and the provider that serves it
Wanted ==
    IF request.provider # "none" THEN request.provider
    ELSE IF request.persona # NoPersona THEN request.persona.preferred_provider
    ELSE IF openai_client THEN "openai" ELSE "maclink"
Serving == IF Available(Wanted) THEN Wanted ELSE Other(Wanted)
ModelOfServing ==
    IF request.model # "none" THEN request.model
    ELSE IF request.persona # NoPersona THEN request.persona.preferred_model
    ELSE DefaultModel(Serving)
NoProvider == ~openai_client /\ ~maclink_client
\* C31: the provider is the caller's, else the persona's, else openai when set
\* and maclink otherwise; an unavailable provider is replaced by the other one;
\* the model is the caller's, else the persona's, else the default of the
\* provider that serves the request; with no provider available the call
\* raises BrainError and no provider is contacted.
C31_ProviderAndModel ==
    /\ gpc \in {"awaiting", "returned"} =>
          /\ ~NoProvider
          /\ chosen = [provider |-> Serving, model |-> ModelOfServing]
    /\ (gpc # "ready" /\ NoProvider) =>
          /\ gpc = "raised"
          /\ \A p \in Providers : requests[p] = 0

\* C32: when the request to the selected provider fails, the call raises a
\* BrainError naming that provider and the other provider was never asked; the
\* other provider serves only when the wanted one is not available.
C32_NoFallbackAfterFailure ==
    /\ (gpc = "raised" /\ chosen # NoChoice) =>
          /\ raisedBy = chosen.provider
          /\ requests[chosen.provider] = 1
          /\ requests[Other(chosen.provider)] = 0
    /\ (chosen # NoChoice /\ chosen.provider # Wanted) => ~Available(Wanted)
    /\ requests["openai"] + requests["maclink"] <= 1
\* the openai request failed while maclink was available
C32_Witness ==
    /\ gpc = "raised" /\ raisedBy = "openai"
    /\ requests["openai"] = 1 /\ maclink_client

\* the value with every entry under a sensitive key replaced by the sentinel,
\* at every depth of dicts and lists
RECURSIVE RedactedAll(_)
RedactedAll(v) ==
    CASE v.kind = "dict" ->
            DictV([e \in DOMAIN v.entries |->
                [key |-> v.entries[e].key,
                 value |-> IF Lower(v.entries[e].key) \in SensitiveFields
                           THEN REDACTED
                           ELSE RedactedAll(v.entries[e].value)]])
      [] v.kind = "list" -> ListV([i \in DOMAIN v.items |-> RedactedAll(v.items[i])])
      [] OTHER -> v
\* C33: every value log_event stores under a key that equals password, token,
\* secret or api_key without regard to case is the sentinel, at every depth of
\* dicts and lists (lists in lists too); every other value is stored as it
\* was; sanitizing a stored meta again changes nothing.
C33_MetaRedacted ==
    /\ apc \in {"logged", "again"} => astored = RedactedAll(ameta)
    /\ apc = "again" => aagain = astored

\* an agent in error stays in error (the AIAgentManager has no recovery
\* operation), an offline agent stays offline
ErrorAndOfflineStay ==
    \A a \in AgentIds :
        /\ (agentStatus[a] = "error") => (agentStatus'[a] \notin {"thinking", "idle"})
        /\ (agentStatus[a] = "offline") => (agentStatus'[a] = "offline")
SendOutcome ==
    \A a \in AgentIds :
        /\ sendPc[a] = "brain" => agentStatus[a] = "thinking"
        /\ sendPc[a] \in {"audit", "returned"} => agentStatus[a] = "idle"
        /\ sendPc[a] = "raised" => agentStatus[a] = "error"
\* C34: an agent in error does not become thinking or idle without a recovery
\* operation and an offline agent never changes status; send_message_to_agent
\* takes an agent from idle to thinking and back to idle when it succeeds, and
\* to error when it raises.
C34_AgentStatusMachine == [][ErrorAndOfflineStay]_vars /\ [] SendOutcome

\* the agents of the coordinate_agents call, as a set
Coordinated == {eagents[i] : i \in DOMAIN eagents}
CoordinateDone ==
    /\ \A a \in Coordinated : invoked[a] = 1 /\ a \in eresults
    /\ \A a \in EntAgentIds \ Coordinated : invoked[a] = 0
    /\ esent = Cardinality(Coordinated \ {SystemSender})
\* C35: coordinate_agents on an entanglement with at least 2 agents sends the
\* task to the members, invokes every member exactly once and returns a result
\* for every member; with fewer than 2 agents it raises, no message appended
\* and no agent invoked.
C35_CoordinateAgents ==
    ecaller = "coordinate" =>
        IF Len(eagents) < 2
        THEN epc = "raised" /\ esent = 0 /\ invoked = NoneInvoked
        ELSE /\ epc # "raised"
             /\ \A a \in EntAgentIds : invoked[a] <= 1
             /\ epc = "returned" => CoordinateDone

\* the number of times c is in the bucket of window type w
Occurrences(c, w) ==
    Cardinality({i \in DOMAIN window_connections[w] : window_connections[w][i] = c})
\* C36: with no connect or disconnect call under way, a connection_id is a key
\* of active_connections exactly when it is once in the bucket of its window
\* type and in no other bucket, whatever connect, disconnect, send and sweep
\* calls were made.
C36_RegistriesAgree ==
    \A c \in ConnIds :
        (active_connections[c] # NoConn) <=>
            /\ Occurrences(c, WindowOf(c)) = 1
            /\ \A w \in WsWindowTypes \ {WindowOf(c)} : Occurrences(c, w) = 0

\* C37: disconnect calls for the same connection_id that overlap at the await on
\* closing the transport all complete without raising, and the id is then in
\* neither active_connections nor any window bucket.
C37_OverlappingDisconnects ==
    \A k \in DisconnectCalls :
        /\ dcall[k].pc # "raised"
        /\ dcall[k].pc = "done" =>
              /\ active_connections[dcall[k].conn] = NoConn
              /\ \A w \in WsWindowTypes : Occurrences(dcall[k].conn, w) = 0

\* C38: an execution that has reached a terminal status (completed, failed or
\* cancelled), flat or visual, is eventually in neither active_executions nor
\* execution_tasks.
C38_TerminalExecutionsRemoved ==
    [](vstatus \in TerminalStatus \/ status \in TerminalStatus
          => <>(~registered /\ ~taskRegistered))

\* C39: when execute_workflow raises to its caller after it has spawned the
\* driver, no context of the call is in active_executions and no driver task of
\* it is running.
C39_NoExecutionAfterError ==
    callPc = "raised" => ~registered /\ ~taskRegistered /\ pc \in {"none", "done"}

\* C40: at terminal status of a sequential, parallel or conditional workflow,
\* completed_steps holds exactly the ids of the top-level steps whose StepContext
\* status is completed, and failed_steps exactly the ids of those whose status
\* is failed.
C40_StepListsAgree ==
    (pc = "done" /\ status \in TerminalStatus) =>
        /\ Members(completed_steps) = {i \in StepIds : step_contexts[i].status = "completed"}
        /\ Members(failed_steps) = {i \in StepIds : step_contexts[i].status = "failed"}

====
